---- MODULE Spec2Model ----
(***************************************************************************)
(* PotterPi: wand tracking (potterpi/motion_tracker.py, WandTracker) and   *)
(* spell recognition (spell_recognition.py, SpellRecognizer).              *)
(*                                                                         *)
(* Spec          the WandTracker state machine driven by update / reset,   *)
(*               with a wall clock that advances between calls.            *)
(* SpecRecognize SpellRecognizer.recognize applied to a drawn path.        *)
(* SpecStats     SpellRecognizer.get_spell_stats on float64.               *)
(* SpecFrames    WandTracker.find_wand on the pixels of a frame.           *)
(* SpecLoop      PotterPi.run, one step per iteration of the frame loop.   *)
(* SpecViewer    the frame loop and the server threads of the WebViewer.   *)
(* SpecHA        the methods of HomeAssistantAPI over one HTTP request.    *)
(* SpecConfig    Config.get and Config.set on the nested dict.             *)
(* SpecLogger    SpellLogger instances on the shared logger.               *)
(* SpecApp       PotterPi.__init__ reading its parameters from Config.     *)
(* SpecRecognizeStats  recognize followed by get_spell_stats.              *)
(***************************************************************************)
EXTENDS Integers, Sequences, FiniteSets, TLC

VARIABLES
    \* ---- WandTracker fields (motion_tracker.py:28-36)
    min_movement,       \* self.min_movement
    path_length,        \* self.path_length, the maxlen of the deque
    path,               \* self.path, oldest point first
    last_position,      \* self.last_position, None or a point
    is_casting,         \* self.is_casting
    cast_start_time,    \* self.cast_start_time, None or <<t>>
    \* ---- environment and observation of the last call
    now,                \* the value time.time() returns
    op,                 \* the last call made on the tracker
    position,           \* what find_wand returned in the last update
    is_tracking,        \* what the last update returned
    pre,                \* the tracker fields and the clock when the last call began
    recorded,           \* history: the positions appended since path was last cleared
    \* ---- SpellRecognizer fields and one recognize call
    min_points,             \* self.min_points
    straightness_threshold, \* self.straightness_threshold as <<num, den>>
    points,                 \* the path handed to recognize
    spell,                  \* what recognize returned, "pending" before the call
    \* ---- one get_spell_stats call
    stats,                  \* what get_spell_stats returned for points
    \* ---- the frame handed to update (motion_tracker.py:40-95)
    brightness_threshold,   \* self.brightness_threshold
    frame,                  \* the grayscale frame of the last update
    contour_order,          \* the order in which cv2.findContours lists regions
    \* ---- PotterPi, the frame loop (potterpi.py:80-192)
    running,                \* the loop has not been left by an exception
    spell_cooldown,         \* self.spell_cooldown
    last_spell_time,        \* self.last_spell_time
    raised,                 \* the collaborator call that raised in the last iteration
    cast,                   \* what the last iteration did with the cast
    calls,                  \* the collaborator calls that returned in the last iteration
    dispatched,             \* history: when the last cast was dispatched, or None
    \* ---- WebViewer and the threads that use it (web_viewer.py:20-183)
    frame_lock,             \* self.frame_lock: the thread that holds it, or "free"
    pc,                     \* where each thread is
    locals,                 \* the lists get_path returned to run: current_path and path
    taken,                  \* history: the tracker's path when each list was returned
    accesses,               \* the accesses of the last step, with the holder of the lock
    current_frame,          \* self.current_frame: None or the frame with its overlay
    frames_processed,       \* self.stats["frames_processed"]
    last_spell,             \* self.last_spell
    \* ---- HomeAssistantAPI and the requests library (homeassistant_api.py:37-147)
    requests_version,       \* the installed requests: "2.26" or "2.27"
    ha_call,                \* the last method called and what the HTTP request did
    ha_result,              \* how that call ended: returned a value, or raised
    \* ---- Config (potterpi/config.py:124-162)
    config,                 \* self.config, the nested dict
    config_call,            \* the last get or set: its arguments, the dict
                            \* before it, and how it ended
    application,            \* the application constructed from the Config
    \* ---- SpellLogger and the logging module (spell_logger.py:15-96)
    handlers,               \* logging.getLogger("PotterPi").handlers
    files,                  \* the lines written to each file and to stderr
    instances,              \* the log_path of each SpellLogger constructed
    log_call                \* the last call: method, instance, and the
                            \* number of the last message logged

vars == <<min_movement, path_length, path, last_position, is_casting,
          cast_start_time, now, op, position, is_tracking, pre, recorded,
          min_points, straightness_threshold, points, spell, stats,
          brightness_threshold, frame, contour_order, running,
          spell_cooldown, last_spell_time, raised, cast, calls, dispatched,
          frame_lock,
          pc, locals, taken, accesses, current_frame, frames_processed,
          last_spell, requests_version, ha_call, ha_result, config,
          config_call, application, handlers, files, instances, log_call>>

trackerVars == <<min_movement, path_length, path, last_position, is_casting,
                 cast_start_time, now, op, position, is_tracking, pre, recorded>>

recognizerVars == <<min_points, straightness_threshold, points, spell>>

statsVars == <<stats>>

frameVars == <<brightness_threshold, frame, contour_order>>

loopVars == <<running, spell_cooldown, last_spell_time, raised, cast, calls,
              dispatched>>

viewerVars == <<frame_lock, pc, locals, taken, accesses, current_frame,
                frames_processed, last_spell>>

haVars == <<requests_version, ha_call, ha_result>>

configVars == <<config, config_call, application>>

loggerVars == <<handlers, files, instances, log_call>>

\* the services around the loop: Home Assistant, the configuration and the
\* log
svcVars == <<haVars, configVars, loggerVars>>

\* the variables of the other components
extVars == <<statsVars, frameVars, loopVars, viewerVars, svcVars>>

----------------------------------------------------------------------------
\* Bounds of the tracker model

\* largest path_length a tracker is constructed with
MaxPathLength == 2
\* the clock stops advancing here
MaxTime == 3
\* most positions recorded in one cast
MaxRecorded == 3

\* Python's None, for a point and for a timestamp
None == <<>>

\* the positions find_wand can report: (0,0)-(3,4) and (3,4)-(6,0) are exactly
\* 5 apart, (0,0)-(3,0) is 3 apart, (3,0)-(3,4) is 4 apart, (0,0)-(6,0) is 6
Positions == {<<0, 0>>, <<3, 0>>, <<3, 4>>, <<6, 0>>}

\* the min_movement values a tracker is constructed with (5 is the default)
MinMovements == {0, 5}

----------------------------------------------------------------------------
\* WandTracker

\* (px - lx)**2 + (py - ly)**2
SquaredDistance(p, q) == (p[1] - q[1]) * (p[1] - q[1]) + (p[2] - q[2]) * (p[2] - q[2])

\* np.sqrt(d2) < m for an integer m: the square root is never negative
SqrtLess(d2, m) == m > 0 /\ d2 < m * m

\* a deque that never evicts
deque_append_unbounded(dq, x, maxlen) == Append(dq, x)

\* a full deque that drops its newest item instead of its oldest
deque_append_drop_newest(dq, x, maxlen) ==
    IF maxlen = 0 THEN dq
    ELSE IF Len(dq) >= maxlen THEN Append(SubSeq(dq, 1, Len(dq) - 1), x)
    ELSE Append(dq, x)

\* deque(maxlen=maxlen).append(x): a full deque drops its oldest (left) item,
\* and a deque of maxlen 0 stays empty
deque_append(dq, x, maxlen) ==
    IF maxlen = 0 THEN dq
    ELSE IF Len(dq) >= maxlen THEN Append(Tail(dq), x)
    ELSE Append(dq, x)

\* the fields of a tracker right after __init__
NewTracker ==
    [path |-> <<>>, last_position |-> None, is_casting |-> FALSE,
     cast_start_time |-> None]

\* the tracker's current fields
Self ==
    [path |-> path, last_position |-> last_position, is_casting |-> is_casting,
     cast_start_time |-> cast_start_time]

\* update, position is None: the wand is lost
wand_lost(self) ==
    [self EXCEPT
       !.is_casting = IF self.is_casting /\ Len(self.path) > 0 THEN FALSE ELSE @,
       !.last_position = None]

\* a gate that suppresses nothing
too_close_never(self, pos) == FALSE

\* a gate that also suppresses a position exactly min_movement away
too_close_inclusive(self, pos) ==
    /\ self.last_position # None
    /\ min_movement >= 0
    /\ SquaredDistance(pos, self.last_position) <= min_movement * min_movement

\* update, the movement gate: distance < self.min_movement
too_close(self, pos) ==
    /\ self.last_position # None
    /\ SqrtLess(SquaredDistance(pos, self.last_position), min_movement)

\* a cast that starts without taking the time
start_cast_without_time(self, t) ==
    [self EXCEPT !.is_casting = TRUE, !.path = <<>>]

\* a cast that starts without clearing the path
start_cast_no_clear(self, t) ==
    [self EXCEPT !.is_casting = TRUE, !.cast_start_time = <<t>>]

\* update, `if not self.is_casting`: starting a new cast
start_cast(self, t) ==
    [self EXCEPT !.is_casting = TRUE, !.cast_start_time = <<t>>, !.path = <<>>]

\* update, given what find_wand returned (pos) and what time.time() returns (t):
\* the fields afterwards, the value returned, and whether path.clear() and
\* path.append(position) were executed
update(self, pos, t) ==
    IF pos = None
    THEN [self |-> wand_lost(self), ret |-> FALSE,
          cleared |-> FALSE, appended |-> FALSE]
    ELSE IF too_close(self, pos)
    THEN [self |-> self, ret |-> self.is_casting,
          cleared |-> FALSE, appended |-> FALSE]
    ELSE LET started == IF ~self.is_casting THEN start_cast(self, t) ELSE self
         IN [self |-> [started EXCEPT
                         !.path = deque_append(started.path, pos, path_length),
                         !.last_position = pos],
             ret |-> TRUE, cleared |-> ~self.is_casting, appended |-> TRUE]

\* a reset that leaves the start time of the last cast behind
reset_keeps_start_time(self) ==
    [self EXCEPT !.path = <<>>, !.last_position = None, !.is_casting = FALSE]

\* reset
reset(self) ==
    [self EXCEPT !.path = <<>>, !.last_position = None, !.is_casting = FALSE,
                 !.cast_start_time = None]

\* get_path: list(self.path)
get_path == path

\* a duration that is 0 whenever the tracker is not casting
get_cast_duration_while_casting ==
    IF is_casting /\ cast_start_time # None THEN now - cast_start_time[1] ELSE 0

\* get_cast_duration: `if self.cast_start_time` is false for None and for 0
get_cast_duration ==
    IF cast_start_time # None /\ cast_start_time[1] # 0
    THEN now - cast_start_time[1]
    ELSE 0

\* the snapshot taken when a call begins
Snapshot ==
    [path |-> path, last_position |-> last_position, is_casting |-> is_casting,
     cast_start_time |-> cast_start_time, now |-> now, recorded |-> recorded]

\* the history after an update that found pos: it restarts where the code
\* clears the path and grows where the code appends to it
RecordedAfter(pos, r) ==
    LET kept == IF r.cleared THEN <<>> ELSE recorded
    IN IF r.appended THEN Append(kept, pos) ELSE kept

InitTracker ==
    /\ min_movement \in MinMovements
    /\ path_length \in 0..MaxPathLength
    /\ path = NewTracker.path
    /\ last_position = NewTracker.last_position
    /\ is_casting = NewTracker.is_casting
    /\ cast_start_time = NewTracker.cast_start_time
    /\ now = 1
    /\ op = "init"
    /\ position = None
    /\ is_tracking = FALSE
    /\ recorded = <<>>
    /\ pre = Snapshot

\* no SpellRecognizer call is in progress
RecognizerIdle ==
    /\ min_points = 0
    /\ straightness_threshold = <<0, 1>>
    /\ points = <<>>
    /\ spell = "pending"

\* no get_spell_stats call has been made
StatsIdle == stats = [status |-> "pending"]

\* a tracker with the default brightness_threshold that has seen no frame
FramesIdle ==
    /\ brightness_threshold = 200
    /\ frame = <<>>
    /\ contour_order = "scan"

\* the model time at which time.time() is 0: the clock of the model is 1
\* when the program starts, some 1.7e9 seconds into the epoch
EpochZero == 1 - 1700000000

\* PotterPi.__init__ with the default cooldown; run has not been entered
LoopIdle ==
    /\ running = FALSE
    /\ spell_cooldown = 1
    /\ last_spell_time = EpochZero
    /\ raised = "none"
    /\ cast = "none"
    /\ calls = {}
    /\ dispatched = None

\* the threads: the frame loop, and the server threads that handle a
\* request for /stats and one for /video_feed
Threads == {"loop", "stats", "video_feed"}

\* WebViewer.__init__, and no thread started
ViewerIdle ==
    /\ frame_lock = "free"
    /\ pc = [t \in Threads |-> "idle"]
    /\ locals = [current_path |-> None, path |-> None]
    /\ taken = [current_path |-> <<>>, path |-> <<>>]
    /\ accesses = {}
    /\ current_frame = None
    /\ frames_processed = 0
    /\ last_spell = None

\* a HomeAssistantAPI on which no method has been called
HAIdle ==
    /\ requests_version = "2.27"
    /\ ha_call = [method |-> "none"]
    /\ ha_result = [status |-> "pending", value |-> "none", exc |-> "none"]

\* a value of the configuration that is not a dict
Leaf(v) == [kind |-> "leaf", v |-> v, items |-> [k \in {} |-> 0]]

\* a dict of the configuration: items maps its keys to their values
Dict(items) == [kind |-> "dict", v |-> 0, items |-> items]

\* {}
EmptyDict == Dict([k \in {} |-> 0])

\* Config._default_config(): the sections the application reads, with the
\* numbers 0.6 and 1.0 written as <<6, 10>> and 1
default_config ==
    Dict([section \in {"tracking", "recognition", "logging"} |->
        CASE section = "tracking" ->
                 Dict([k \in {"brightness_threshold", "min_movement",
                              "path_length"} |->
                     CASE k = "brightness_threshold" -> Leaf(200)
                       [] k = "min_movement" -> Leaf(5)
                       [] k = "path_length" -> Leaf(30)])
          [] section = "recognition" ->
                 Dict([k \in {"min_points", "straightness_threshold",
                              "min_distance"} |->
                     CASE k = "min_points" -> Leaf(8)
                       [] k = "straightness_threshold" -> Leaf(<<6, 10>>)
                       [] k = "min_distance" -> Leaf(30)])
          [] section = "logging" ->
                 Dict([k \in {"spell_cooldown"} |-> Leaf(1)])])

\* Config.__init__ without a configuration file; no get or set was called
ConfigIdle ==
    /\ config = default_config
    /\ config_call = [op |-> "none"]
    /\ application = "none"

\* the files that log_path can name
LogPaths == {"/var/log/potterpi/potterpi.log", "/tmp/test/test_spells.log"}

\* what the handlers write to
Streams == LogPaths \cup {"stderr"}

\* the process has started: the logger "PotterPi" has no handler, and no
\* SpellLogger was constructed
LoggerIdle ==
    /\ handlers = <<>>
    /\ files = [f \in Streams |-> <<>>]
    /\ instances = <<>>
    /\ log_call = [op |-> "none", instance |-> 0, message |-> 0]

\* no call on the services has been made
SvcIdle == HAIdle /\ ConfigIdle /\ LoggerIdle

\* no call on the other components has been made
ExtIdle == StatsIdle /\ FramesIdle /\ LoopIdle /\ ViewerIdle /\ SvcIdle

Init == InitTracker /\ RecognizerIdle /\ ExtIdle

\* tracker.update(frame) on a frame in which find_wand finds pos
Update(pos) ==
    LET r == update(Self, pos, now)
        rec == RecordedAfter(pos, r)
    IN /\ Len(rec) <= MaxRecorded
       /\ path' = r.self.path
       /\ last_position' = r.self.last_position
       /\ is_casting' = r.self.is_casting
       /\ cast_start_time' = r.self.cast_start_time
       /\ is_tracking' = r.ret
       /\ recorded' = rec
       /\ op' = "update"
       /\ position' = pos
       /\ pre' = Snapshot
       /\ UNCHANGED <<min_movement, path_length, now>>

\* a frame with no wand in it
UpdateLost == Update(None)

\* a frame with the wand at some position
UpdateFound == \E pos \in Positions : Update(pos)

\* tracker.reset()
Reset ==
    LET s == reset(Self)
    IN /\ path' = s.path
       /\ last_position' = s.last_position
       /\ is_casting' = s.is_casting
       /\ cast_start_time' = s.cast_start_time
       /\ recorded' = <<>>
       /\ op' = "reset"
       /\ pre' = Snapshot
       /\ UNCHANGED <<min_movement, path_length, now, position, is_tracking>>

\* time passes between two calls
Tick ==
    /\ now < MaxTime
    /\ now' = now + 1
    /\ UNCHANGED <<min_movement, path_length, path, last_position, is_casting,
                   cast_start_time, op, position, is_tracking, pre, recorded>>

Next ==
    \/ UpdateLost /\ UNCHANGED <<recognizerVars, extVars>>
    \/ UpdateFound /\ UNCHANGED <<recognizerVars, extVars>>
    \/ Reset /\ UNCHANGED <<recognizerVars, extVars>>
    \/ Tick /\ UNCHANGED <<recognizerVars, extVars>>

Spec == Init /\ [][Next]_vars

----------------------------------------------------------------------------
\* Bounds of the recognizer model

\* most points in a path handed to recognize
MaxPoints == 3
\* largest min_points a recognizer is constructed with
MaxMinPoints == 3

\* the pixel coordinates of the paths handed to recognize
GridX == {0, 10, 30, 40}
GridY == {0, 30}
Grid == GridX \X GridY

\* the straightness_threshold values a recognizer is constructed with, as
\* <<numerator, denominator>>: 0.6 is the default, 0.95 the strict recognizer
\* of test_custom_thresholds
Thresholds == {<<6, 10>>, <<95, 100>>}

----------------------------------------------------------------------------
\* SpellRecognizer

\* spell type constants
HORIZONTAL_RIGHT == "Horizontal Line Right"
HORIZONTAL_LEFT == "Horizontal Line Left"
VERTICAL_UP == "Vertical Line Up"
VERTICAL_DOWN == "Vertical Line Down"
UNKNOWN == "Unknown"
\* recognize returned None
NoSpell == "None"
\* points[0] on an empty array
IndexError == "IndexError"

\* `max(abs_dx, abs_dy) < 30`
MinimumDisplacement == 30

Abs(x) == IF x < 0 THEN -x ELSE x

Max(a, b) == IF a >= b THEN a ELSE b

\* the whole number r with r*r <= n < (r+1)*(r+1)
ISqrt(n) == CHOOSE r \in 0..n : r * r <= n /\ n < (r + 1) * (r + 1)

\* sqrt(n) is a whole number
IsSquare(n) == ISqrt(n) * ISqrt(n) = n

\* np.sqrt(np.sum(np.diff(points, axis=0)**2, axis=1))[i]: the length of the
\* segment from p to q, exact when it is a whole number
segment_length(p, q) == ISqrt(SquaredDistance(p, q))

\* np.sum of the segment lengths
RECURSIVE total_distance(_)
total_distance(pts) ==
    IF Len(pts) < 2 THEN 0
    ELSE segment_length(pts[1], pts[2]) + total_distance(Tail(pts))

\* the paths drawn: every segment has a whole length, so that total_distance
\* is computed without rounding
InputPaths ==
    {p \in UNION {[1..n -> Grid] : n \in 0..MaxPoints} :
        \A i \in 1..(Len(p) - 1) : IsSquare(SquaredDistance(p[i], p[i + 1]))}

\* a length check that lets a path one point short through
too_few_points_off_by_one(pts) == Len(pts) < min_points - 1

\* `len(path) < self.min_points`
too_few_points(pts) == Len(pts) < min_points

\* a recognizer without the net-movement check
no_net_movement_never(dx, dy) == FALSE

\* `straight_distance == 0`, straight_distance = np.sqrt(dx**2 + dy**2)
no_net_movement(dx, dy) == dx * dx + dy * dy = 0

\* a straightness check that also rejects a path exactly at the threshold
too_curved_inclusive(dx, dy, total) ==
    (dx * dx + dy * dy) * straightness_threshold[2] * straightness_threshold[2]
        <= straightness_threshold[1] * straightness_threshold[1] * total * total

\* `straightness < self.straightness_threshold`, with straightness =
\* straight_distance / total_distance: both sides are >= 0, so the comparison
\* is the comparison of the squares, cross-multiplied
too_curved(dx, dy, total) ==
    (dx * dx + dy * dy) * straightness_threshold[2] * straightness_threshold[2]
        < straightness_threshold[1] * straightness_threshold[1] * total * total

\* a displacement check that also rejects a displacement of exactly 30
too_small_inclusive(dx, dy) == Max(Abs(dx), Abs(dy)) <= MinimumDisplacement

\* `max(abs_dx, abs_dy) < 30`
too_small(dx, dy) == Max(Abs(dx), Abs(dy)) < MinimumDisplacement

\* a classification that sends the tie |dx| = |dy| to the horizontal branch
classify_tie_horizontal(dx, dy) ==
    IF Abs(dx) >= Abs(dy)
    THEN IF dx > 0 THEN HORIZONTAL_RIGHT ELSE HORIZONTAL_LEFT
    ELSE IF dy > 0 THEN VERTICAL_DOWN ELSE VERTICAL_UP

\* the classification by dominant axis
classify(dx, dy) ==
    IF Abs(dx) > Abs(dy)
    THEN IF dx > 0 THEN HORIZONTAL_RIGHT ELSE HORIZONTAL_LEFT
    ELSE IF dy > 0 THEN VERTICAL_DOWN ELSE VERTICAL_UP

\* recognize(path)
recognize(pts) ==
    IF too_few_points(pts) THEN NoSpell
    ELSE IF Len(pts) = 0 THEN IndexError
    ELSE LET dx == pts[Len(pts)][1] - pts[1][1]
             dy == pts[Len(pts)][2] - pts[1][2]
             total == total_distance(pts)
         IN IF no_net_movement(dx, dy) THEN NoSpell
            ELSE IF too_curved(dx, dy, total) THEN UNKNOWN
            ELSE IF too_small(dx, dy) THEN NoSpell
            ELSE classify(dx, dy)

\* a tracker that is constructed with the defaults and never called
TrackerIdle ==
    /\ min_movement = 5
    /\ path_length = 30
    /\ path = NewTracker.path
    /\ last_position = NewTracker.last_position
    /\ is_casting = NewTracker.is_casting
    /\ cast_start_time = NewTracker.cast_start_time
    /\ now = 1
    /\ op = "init"
    /\ position = None
    /\ is_tracking = FALSE
    /\ recorded = <<>>
    /\ pre = Snapshot

\* a recognizer and the path it is about to be handed
InitRecognize ==
    /\ TrackerIdle
    /\ ExtIdle
    /\ min_points \in 0..MaxMinPoints
    /\ straightness_threshold \in Thresholds
    /\ points \in InputPaths
    /\ spell = "pending"

\* spell = recognizer.recognize(path)
Recognize ==
    /\ spell = "pending"
    /\ spell' = recognize(points)
    /\ UNCHANGED <<min_points, straightness_threshold, points>>

NextRecognize == Recognize /\ UNCHANGED <<trackerVars, extVars>>

SpecRecognize == InitRecognize /\ [][NextRecognize]_vars

----------------------------------------------------------------------------
\* IEEE 754 binary64 arithmetic, as numpy performs it on float64: every
\* operation returns the exact result rounded to a 53-bit significand, ties to
\* even.  A whole number of up to 80 bits is four limbs of 20 bits, lowest
\* limb first; a float is [m |-> limbs, e |-> exponent] with value m * 2^e and
\* 2^52 <= m < 2^53, or m = 0.

\* most points in a path handed to get_spell_stats
MaxStatsPoints == 3

Limb == 1024 * 1024

BigZero == <<0, 0, 0, 0>>

\* the limbs of a whole number 0 <= n < 2^31
Big(n) == <<n % Limb, n \div Limb, 0, 0>>

Two52 == <<0, 0, 4096, 0>>
Two53 == <<0, 0, 8192, 0>>
Two54 == <<0, 0, 16384, 0>>

BAdd(a, b) ==
    LET s1 == a[1] + b[1]
        s2 == a[2] + b[2] + (s1 \div Limb)
        s3 == a[3] + b[3] + (s2 \div Limb)
        s4 == a[4] + b[4] + (s3 \div Limb)
    IN <<s1 % Limb, s2 % Limb, s3 % Limb, s4 % Limb>>

\* a - b for a >= b
BSub(a, b) ==
    LET d1 == a[1] - b[1]
        d2 == a[2] - b[2] - (IF d1 < 0 THEN 1 ELSE 0)
        d3 == a[3] - b[3] - (IF d2 < 0 THEN 1 ELSE 0)
        d4 == a[4] - b[4] - (IF d3 < 0 THEN 1 ELSE 0)
    IN <<d1 % Limb, d2 % Limb, d3 % Limb, d4 % Limb>>

BLess(a, b) ==
    \/ a[4] < b[4]
    \/ a[4] = b[4] /\ a[3] < b[3]
    \/ a[4] = b[4] /\ a[3] = b[3] /\ a[2] < b[2]
    \/ a[4] = b[4] /\ a[3] = b[3] /\ a[2] = b[2] /\ a[1] < b[1]

BOdd(a) == a[1] % 2 = 1

BDouble(a) == BAdd(a, a)

BHalf(a) ==
    <<(a[1] \div 2) + (a[2] % 2) * (Limb \div 2),
      (a[2] \div 2) + (a[3] % 2) * (Limb \div 2),
      (a[3] \div 2) + (a[4] % 2) * (Limb \div 2),
      a[4] \div 2>>

\* 2^k for k in 0..10
Pow2 == <<1, 2, 4, 8, 16, 32, 64, 128, 256, 512, 1024>>

\* a * c for 0 <= c <= 1024
BMul(a, c) ==
    LET s1 == a[1] * c
        s2 == a[2] * c + (s1 \div Limb)
        s3 == a[3] * c + (s2 \div Limb)
        s4 == a[4] * c + (s3 \div Limb)
    IN <<s1 % Limb, s2 % Limb, s3 % Limb, s4 % Limb>>

\* a * 2^k
RECURSIVE BShl(_, _)
BShl(a, k) == IF k <= 10 THEN BMul(a, Pow2[k + 1]) ELSE BShl(BMul(a, 1024), k - 10)

\* a \div 2^k, with the lowest bit set when a bit that was shifted out was set
RECURSIVE BShrJam(_, _)
BShrJam(a, k) ==
    IF k = 0 THEN a
    ELSE LET h == BHalf(a)
         IN BShrJam(IF BOdd(a) /\ ~BOdd(h) THEN BAdd(h, Big(1)) ELSE h, k - 1)

FZero == [m |-> BigZero, e |-> 0]

\* 1.0
FOne == [m |-> Two52, e |-> -52]

\* the float nearest to q * 2^e (ties to even); sticky says that q is the
\* truncation of a larger value, and then q >= 2^53
RECURSIVE FRound(_, _, _)
FRound(q, e, sticky) ==
    IF q = BigZero THEN FZero
    ELSE IF ~BLess(q, Two54) THEN FRound(BHalf(q), e + 1, sticky \/ BOdd(q))
    ELSE IF BLess(q, Two52) THEN FRound(BDouble(q), e - 1, sticky)
    ELSE IF BLess(q, Two53) THEN [m |-> q, e |-> e]
    ELSE LET m == BHalf(q)
             up == BOdd(q) /\ (sticky \/ BOdd(m))
             m1 == IF up THEN BAdd(m, Big(1)) ELSE m
         IN IF m1 = Two53 THEN [m |-> Two52, e |-> e + 2]
            ELSE [m |-> m1, e |-> e + 1]

\* a < b for floats >= 0
FLess(a, b) ==
    IF b.m = BigZero THEN FALSE
    ELSE IF a.m = BigZero THEN TRUE
    ELSE a.e < b.e \/ (a.e = b.e /\ BLess(a.m, b.m))

\* 4^k
RECURSIVE Pow4(_)
Pow4(k) == IF k = 0 THEN 1 ELSE 4 * Pow4(k - 1)

\* the states of the digit-by-digit square root of n: the root and the
\* remainder so far, the bit pair k of n to take next, the exponent e
SqrtStates == [root : Seq(Nat), rem : Seq(Nat), n : Nat, k : Int, e : Int]

\* one step of the digit-by-digit square root: the next two bits of the
\* radicand (bit pair t.k of n, zeros after the binary point) give the next
\* bit of the root
SqrtStep[t \in SqrtStates] ==
    LET d == IF t.k >= 0 THEN (t.n \div Pow4(t.k)) % 4 ELSE 0
        r4 == BAdd(BMul(t.rem, 4), Big(d))
        cand == BAdd(BMul(t.root, 4), Big(1))
        fits == ~BLess(r4, cand)
    IN [root |-> IF fits THEN BAdd(BDouble(t.root), Big(1)) ELSE BDouble(t.root),
        rem |-> IF fits THEN BSub(r4, cand) ELSE r4,
        n |-> t.n,
        k |-> t.k - 1,
        e |-> IF t.k >= 0 THEN t.e ELSE t.e - 1]

\* the steps of the square root, until the root has 54 bits
SqrtLoop[t \in SqrtStates] ==
    IF ~BLess(t.root, Two53) THEN t ELSE SqrtLoop[SqrtStep[t]]

\* np.sqrt(n) for a whole number 0 <= n < 2^31: 16 bit pairs of n and then
\* the pairs after the binary point
fsqrt(n) ==
    IF n = 0 THEN FZero
    ELSE LET t == SqrtLoop[[root |-> BigZero, rem |-> BigZero, n |-> n,
                            k |-> 15, e |-> 0]]
         IN FRound(t.root, t.e, t.rem # BigZero)

\* a + b for floats >= 0
fadd(a, b) ==
    IF a.m = BigZero THEN b
    ELSE IF b.m = BigZero THEN a
    ELSE LET hi == IF a.e >= b.e THEN a ELSE b
             lo == IF a.e >= b.e THEN b ELSE a
             d == hi.e - lo.e
         IN IF d <= 26
            THEN FRound(BAdd(BShl(hi.m, d), lo.m), lo.e, FALSE)
            ELSE FRound(BAdd(BShl(hi.m, 26), BShrJam(lo.m, d - 26)),
                        hi.e - 26, FALSE)

\* the states of the restoring division of r by b: the quotient bits so far
\* and the number of bits still to come
DivStates == [q : Seq(Nat), r : Seq(Nat), b : Seq(Nat), i : Nat]

\* one step of the restoring division: the next quotient bit
DivStep[t \in DivStates] ==
    IF BLess(t.r, t.b)
    THEN [q |-> BDouble(t.q), r |-> BDouble(t.r), b |-> t.b, i |-> t.i - 1]
    ELSE [q |-> BAdd(BDouble(t.q), Big(1)), r |-> BDouble(BSub(t.r, t.b)),
          b |-> t.b, i |-> t.i - 1]

\* the steps of the division, until no bit is to come
DivLoop[t \in DivStates] == IF t.i = 0 THEN t ELSE DivLoop[DivStep[t]]

\* a / b for a float a >= 0 and a float b > 0: 56 quotient bits
fdiv(a, b) ==
    IF a.m = BigZero THEN FZero
    ELSE LET t == DivLoop[[q |-> BigZero, r |-> a.m, b |-> b.m, i |-> 56]]
         IN FRound(t.q, a.e - b.e - 55, t.r # BigZero)

----------------------------------------------------------------------------
\* SpellRecognizer.get_spell_stats, on float64

\* the pixel coordinates of the paths handed to get_spell_stats
StatsPoints == {<<0, 0>>, <<1, 1>>, <<3, 3>>, <<4, 4>>, <<3, 0>>, <<4, 0>>}

StatsPaths == UNION {[1..n -> StatsPoints] : n \in 0..MaxStatsPoints}

\* np.sum(np.sqrt(np.sum(np.diff(points, axis=0)**2, axis=1))): the segment
\* lengths, each rounded, added from the first on, each sum rounded
RECURSIVE FSum(_, _, _)
FSum(acc, pts, i) ==
    IF i >= Len(pts) THEN acc
    ELSE FSum(fadd(acc, fsqrt(SquaredDistance(pts[i], pts[i + 1]))), pts, i + 1)

\* a length check that also turns away a path of two points
stats_too_short_for_two(pts) == Len(pts) < 3

\* len(path) < 2
stats_too_short(pts) == Len(pts) < 2

get_spell_stats(pts) ==
    IF stats_too_short(pts) THEN [status |-> "none"]
    ELSE LET start == pts[1]
             end == pts[Len(pts)]
             dx == end[1] - start[1]
             dy == end[2] - start[2]
             total == FSum(FZero, pts, 1)
             straight == fsqrt(dx * dx + dy * dy)
         IN [status |-> "stats",
             num_points |-> Len(pts),
             start |-> start,
             end |-> end,
             displacement |-> <<dx, dy>>,
             total_distance |-> total,
             straight_distance |-> straight,
             straightness |-> IF FLess(FZero, total) THEN fdiv(straight, total)
                              ELSE FZero]

InitStats ==
    /\ TrackerIdle
    /\ min_points = 0
    /\ straightness_threshold = <<0, 1>>
    /\ spell = "pending"
    /\ points \in StatsPaths
    /\ StatsIdle
    /\ SvcIdle
    /\ FramesIdle
    /\ LoopIdle
    /\ ViewerIdle

GetSpellStats ==
    /\ stats.status = "pending"
    /\ stats' = get_spell_stats(points)
    /\ UNCHANGED recognizerVars

NextStats ==
    GetSpellStats /\ UNCHANGED <<trackerVars, frameVars, loopVars, viewerVars, svcVars>>

SpecStats == InitStats /\ [][NextStats]_vars

----------------------------------------------------------------------------
\* WandTracker.find_wand on a grayscale frame, and update on that frame

\* the size of a frame in pixels
FrameWidth == 6
FrameHeight == 4

Pixels == (0..(FrameWidth - 1)) \X (0..(FrameHeight - 1))

\* the brightness_threshold values a tracker is constructed with: 200 is the
\* default
BrightnessThresholds == {200, 220}

\* a bright blob: the rectangle of w by h pixels at (x, y), of brightness b
Covers(blob, p) ==
    /\ blob.x <= p[1] /\ p[1] < blob.x + blob.w
    /\ blob.y <= p[2] /\ p[2] < blob.y + blob.h

\* the shapes of a blob: one pixel, a line one pixel wide, rectangles
BlobShapes == {<<1, 1>>, <<1, 3>>, <<2, 2>>, <<2, 3>>}

\* the brightness of a blob: below, at or above the thresholds
BlobLevels == {150, 220, 255}

BlobsAt(x, y) ==
    {[x |-> x, y |-> y, w |-> sh[1], h |-> sh[2], b |-> b] :
        sh \in BlobShapes, b \in BlobLevels}

\* the frame that is dark but for the blobs
Paint(blobs) ==
    [p \in Pixels |->
        IF \E blob \in blobs : Covers(blob, p)
        THEN (CHOOSE blob \in blobs : Covers(blob, p)).b
        ELSE 0]

\* the frames handed to update: at most one blob in the left half and at
\* most one in the right half, a dark column between them
Frames ==
    {Paint(l \cup r) :
        l \in {{}} \cup {{blob} : blob \in BlobsAt(1, 1)},
        r \in {{}} \cup {{blob} : blob \in BlobsAt(4, 1)}}

\* a threshold that takes every pixel brighter than half of thr
above_threshold_half(v, thr) == 2 * v > thr

\* cv2.THRESH_BINARY: the pixels strictly above thr
above_threshold(v, thr) == v > thr

\* cv2.threshold(frame, thr, 255, cv2.THRESH_BINARY)
threshold(f, thr) ==
    [p \in Pixels |-> IF above_threshold(f[p], thr) THEN 255 ELSE 0]

\* the rectangles of pixels of a frame, corner to corner
Rects ==
    {r \in [x0 : 0..(FrameWidth - 1), y0 : 0..(FrameHeight - 1),
            x1 : 0..(FrameWidth - 1), y1 : 0..(FrameHeight - 1)] :
        r.x0 <= r.x1 /\ r.y0 <= r.y1}

InRect(r, p) == r.x0 <= p[1] /\ p[1] <= r.x1 /\ r.y0 <= p[2] /\ p[2] <= r.y1

\* the pixels that touch the rectangle, corners included (8-connectivity)
AroundRect(r) ==
    {p \in Pixels :
        /\ ~InRect(r, p)
        /\ r.x0 - 1 <= p[1] /\ p[1] <= r.x1 + 1
        /\ r.y0 - 1 <= p[2] /\ p[2] <= r.y1 + 1}

\* r is a connected region of the binary image: all of it is set and no
\* pixel that touches it is
IsRegion(thresh, r) ==
    /\ thresh[<<r.x0, r.y0>>] = 255
    /\ \A p \in Pixels : InRect(r, p) => thresh[p] = 255
    /\ \A p \in AroundRect(r) : thresh[p] = 0

\* the place of a region in a raster scan: that of its first pixel
ScanIndex(r) == r.y0 * FrameWidth + r.x0

\* the regions in the order of the scan
RECURSIVE ScanSorted(_)
ScanSorted(rs) ==
    IF rs = {} THEN <<>>
    ELSE LET first == CHOOSE r \in rs : \A q \in rs : ScanIndex(r) <= ScanIndex(q)
         IN <<first>> \o ScanSorted(rs \ {first})

Reverse(seq) == [i \in 1..Len(seq) |-> seq[Len(seq) + 1 - i]]

\* cv2.findContours(thresh, cv2.RETR_EXTERNAL, cv2.CHAIN_APPROX_SIMPLE) on an
\* image whose regions are rectangles: the outline of each region, listed in
\* the order of the library
findContours(thresh, order) ==
    LET sorted == ScanSorted({r \in Rects : IsRegion(thresh, r)})
    IN IF order = "scan" THEN sorted ELSE Reverse(sorted)

RECURSIVE SumOver(_, _)
SumOver(f, ps) ==
    IF ps = {} THEN 0
    ELSE LET p == CHOOSE q \in ps : TRUE IN f[p] + SumOver(f, ps \ {p})

\* cv2.mean(frame, mask) for the mask drawContours fills from the outline of
\* r, as <<sum, count>>
mean_brightness(f, r) ==
    LET mask == {p \in Pixels : InRect(r, p)}
    IN <<SumOver(f, mask), Cardinality(mask)>>

\* mean_brightness > max_brightness
brighter(a, b) == a[1] * b[2] > b[1] * a[2]

\* the loop over contours: the first region of the highest mean brightness
RECURSIVE brightest_region(_, _, _, _, _)
brightest_region(f, contours, i, best, max_brightness) ==
    IF i > Len(contours) THEN best
    ELSE LET m == mean_brightness(f, contours[i])
         IN IF brighter(m, max_brightness)
            THEN brightest_region(f, contours, i + 1, <<contours[i]>>, m)
            ELSE brightest_region(f, contours, i + 1, best, max_brightness)

\* cv2.moments(contour), doubled: the moments of the polygon whose corners
\* are the corners of r, so that a pixel and a line have no area
moments(r) ==
    LET area == (r.x1 - r.x0) * (r.y1 - r.y0)
    IN [m00 |-> 2 * area, m10 |-> area * (r.x0 + r.x1), m01 |-> area * (r.y0 + r.y1)]

find_wand(f, thr, order) ==
    LET contours == findContours(threshold(f, thr), order)
        region == brightest_region(f, contours, 1, <<>>, <<0, 1>>)
    IN IF Len(contours) = 0 THEN None
       ELSE IF region # <<>> /\ moments(region[1]).m00 # 0
       THEN LET M == moments(region[1])
            IN <<M.m10 \div M.m00, M.m01 \div M.m00>>
       ELSE None

\* the trackers that receive the frame: a new one, or one that has started
\* a cast on an earlier frame
InitFrames ==
    /\ min_movement \in MinMovements
    /\ path_length = MaxPathLength
    /\ \E t \in {NewTracker, update(NewTracker, <<1, 1>>, 1).self} :
          /\ path = t.path
          /\ last_position = t.last_position
          /\ is_casting = t.is_casting
          /\ cast_start_time = t.cast_start_time
          /\ recorded = t.path
    /\ now = 1
    /\ op = "init"
    /\ position = None
    /\ is_tracking = FALSE
    /\ pre = Snapshot
    /\ RecognizerIdle
    /\ StatsIdle
    /\ SvcIdle
    /\ brightness_threshold \in BrightnessThresholds
    /\ frame = <<>>
    /\ contour_order \in {"scan", "reverse"}
    /\ LoopIdle
    /\ ViewerIdle

\* tracker.update(frame), on the first frame a run hands to the tracker
UpdateFrame ==
    \E f \in Frames :
        /\ op = "init"
        /\ frame' = f
        /\ Update(find_wand(f, brightness_threshold, contour_order))
        /\ UNCHANGED <<brightness_threshold, contour_order>>

NextFrames ==
    UpdateFrame /\ UNCHANGED <<recognizerVars, statsVars, loopVars, viewerVars, svcVars>>

SpecFrames == InitFrames /\ [][NextFrames]_vars

----------------------------------------------------------------------------
\* PotterPi.run, the frame loop

\* the path_length and min_points the application is configured with
LoopPathLength == 3
LoopMinPoints == 2
\* the spell_cooldown the application is configured with, in seconds: the
\* default and a longer one
SpellCooldowns == {1, 2}

\* where find_wand finds the wand in the frames of the camera
LoopPositions == {<<0, 0>>, <<30, 0>>, <<30, 40>>}

\* the calls on collaborators that an iteration makes and that can raise
Collaborators ==
    {"update_frame", "log_spell", "viewer_log_spell", "trigger_spell_action"}

\* the calls of an iteration that are made inside a try block of their own
guarded == {"trigger_spell_action"}

InitLoop ==
    /\ min_movement = 5
    /\ path_length = LoopPathLength
    /\ path = NewTracker.path
    /\ last_position = NewTracker.last_position
    /\ is_casting = NewTracker.is_casting
    /\ cast_start_time = NewTracker.cast_start_time
    /\ now = 1
    /\ op = "init"
    /\ position = None
    /\ is_tracking = FALSE
    /\ recorded = <<>>
    /\ pre = Snapshot
    /\ min_points = LoopMinPoints
    /\ straightness_threshold = <<6, 10>>
    /\ points = <<>>
    /\ spell = "pending"
    /\ StatsIdle
    /\ SvcIdle
    /\ FramesIdle
    /\ ViewerIdle
    /\ running = TRUE
    /\ spell_cooldown \in SpellCooldowns
    /\ last_spell_time = EpochZero
    /\ raised = "none"
    /\ cast = "none"
    /\ calls = {}
    /\ dispatched = None

\* if current_time - self.last_spell_time < self.spell_cooldown
within_cooldown_never(current_time, last, cooldown) == FALSE

within_cooldown(current_time, last, cooldown) == current_time - last < cooldown

\* what one iteration of the loop does when find_wand finds pos in the frame
\* and the call fail, if the iteration makes it, raises
iteration(pos, fail) ==
    LET r == update(Self, pos, now)
        ended == ~r.ret /\ Len(r.self.path) > 0
        \* web_viewer.update_frame is called in every iteration
        left_at_update_frame == fail = "update_frame" /\ fail \notin guarded
        examined == ended /\ ~left_at_update_frame
        current_time == now
        in_cooldown ==
            /\ examined
            /\ within_cooldown(current_time, last_spell_time, spell_cooldown)
        sp == IF examined /\ ~in_cooldown THEN recognize(r.self.path) ELSE "pending"
        dispatch == sp # "pending" /\ sp # NoSpell /\ sp # UNKNOWN
        failed == fail = "update_frame" \/ (dispatch /\ fail \in Collaborators)
        escaped == failed /\ fail \notin guarded
        log_spell == dispatch /\ fail # "log_spell"
        viewer_log_spell ==
            /\ dispatch /\ fail # "viewer_log_spell"
            /\ ~(escaped /\ fail = "log_spell")
        trigger_spell_action ==
            /\ dispatch /\ fail # "trigger_spell_action"
            /\ ~(escaped /\ fail \in {"log_spell", "viewer_log_spell"})
        tracker_reset == examined /\ ~escaped
    IN [self |-> IF tracker_reset THEN reset(r.self) ELSE r.self,
        ret |-> r.ret,
        rec |-> IF tracker_reset THEN <<>> ELSE RecordedAfter(pos, r),
        running |-> ~escaped,
        raised |-> IF failed THEN fail ELSE "none",
        cast |-> IF ~examined THEN "none"
                 ELSE IF in_cooldown THEN "cooldown" ELSE "examined",
        points |-> IF examined /\ ~in_cooldown THEN r.self.path ELSE <<>>,
        spell |-> sp,
        calls |-> {c \in Collaborators :
                     \/ c = "update_frame" /\ fail # c
                     \/ c = "log_spell" /\ log_spell
                     \/ c = "viewer_log_spell" /\ viewer_log_spell
                     \/ c = "trigger_spell_action" /\ trigger_spell_action},
        last_spell_time |-> IF dispatch /\ ~escaped THEN current_time
                            ELSE last_spell_time,
        dispatched |-> IF dispatch THEN <<current_time>> ELSE dispatched]

\* one iteration of `while self.running`
Iteration ==
    \E pos \in LoopPositions \cup {None}, fail \in Collaborators \cup {"none"} :
        LET it == iteration(pos, fail)
        IN /\ running
           /\ fail # "none" => it.raised = fail
           /\ Len(it.rec) <= MaxRecorded
           /\ path' = it.self.path
           /\ last_position' = it.self.last_position
           /\ is_casting' = it.self.is_casting
           /\ cast_start_time' = it.self.cast_start_time
           /\ is_tracking' = it.ret
           /\ recorded' = it.rec
           /\ op' = "iteration"
           /\ position' = pos
           /\ pre' = Snapshot
           /\ points' = it.points
           /\ spell' = it.spell
           /\ running' = it.running
           /\ raised' = it.raised
           /\ cast' = it.cast
           /\ calls' = it.calls
           /\ last_spell_time' = it.last_spell_time
           /\ dispatched' = it.dispatched
           /\ UNCHANGED <<min_movement, path_length, now, min_points,
                          straightness_threshold, spell_cooldown>>

\* time passes between two frames
LoopTick ==
    /\ running
    /\ Tick
    /\ UNCHANGED <<recognizerVars, loopVars>>

NextLoop ==
    \/ Iteration /\ UNCHANGED <<statsVars, frameVars, viewerVars, svcVars>>
    \/ LoopTick /\ UNCHANGED <<statsVars, frameVars, viewerVars, svcVars>>

SpecLoop == InitLoop /\ [][NextLoop]_vars

----------------------------------------------------------------------------
\* The frame loop and the server threads of the WebViewer

\* most frames the loop hands to the viewer
MaxFrames == 3

\* where find_wand finds the wand in the frames of the camera
ViewerPositions == {<<0, 0>>, <<3, 0>>}

\* a get_path that hands out the deque itself
get_path_list_live == <<[live |-> TRUE, items |-> <<>>]>>

\* the list get_path returns: list(self.path), a list of its own
get_path_list == <<[live |-> FALSE, items |-> get_path]>>

\* the points a list holds now
Items(list) == IF list[1].live THEN path ELSE list[1].items

\* an access of a thread to a field, and the holder of frame_lock meanwhile
Access(thread, field, mode) ==
    [thread |-> thread, field |-> field, mode |-> mode, holder |-> frame_lock]

\* thread t moves on to pc to
Goto(t, to) == pc' = [pc EXCEPT ![t] = to]

\* with self.frame_lock: the lock is taken when it is free
Acquire(t, from, to) ==
    /\ pc[t] = from
    /\ frame_lock = "free"
    /\ frame_lock' = t
    /\ Goto(t, to)
    /\ accesses' = {}
    /\ UNCHANGED <<locals, taken, current_frame, frames_processed, last_spell>>

\* the end of the with block
Release(t, from, to) ==
    /\ pc[t] = from
    /\ frame_lock' = "free"
    /\ Goto(t, to)
    /\ accesses' = {}
    /\ UNCHANGED <<locals, taken, current_frame, frames_processed, last_spell>>

InitViewer ==
    /\ min_movement = 0
    /\ path_length = MaxPathLength
    /\ path = NewTracker.path
    /\ last_position = NewTracker.last_position
    /\ is_casting = NewTracker.is_casting
    /\ cast_start_time = NewTracker.cast_start_time
    /\ now = 1
    /\ op = "init"
    /\ position = None
    /\ is_tracking = FALSE
    /\ recorded = <<>>
    /\ pre = Snapshot
    /\ RecognizerIdle
    /\ StatsIdle
    /\ SvcIdle
    /\ FramesIdle
    /\ LoopIdle
    /\ frame_lock = "free"
    /\ pc = [t \in Threads |-> IF t = "loop" THEN "get_frame" ELSE "idle"]
    /\ locals = [current_path |-> None, path |-> None]
    /\ taken = [current_path |-> <<>>, path |-> <<>>]
    /\ accesses = {}
    /\ current_frame = None
    /\ frames_processed = 0
    /\ last_spell = None

\* run: frame = self.camera.get_frame(); is_tracking = self.tracker.update(frame)
LoopUpdate ==
    /\ pc["loop"] = "get_frame"
    /\ frames_processed < MaxFrames
    /\ \E pos \in ViewerPositions \cup {None} : Update(pos)
    /\ Goto("loop", "get_path")
    /\ accesses' = {Access("loop", "path", "write")}
    /\ UNCHANGED <<frame_lock, locals, taken, current_frame, frames_processed,
                   last_spell>>

\* run: current_path = self.tracker.get_path() if is_tracking else None
LoopGetPath ==
    /\ pc["loop"] = "get_path"
    /\ locals' = [locals EXCEPT
                     !.current_path = IF is_tracking THEN get_path_list ELSE None]
    /\ taken' = [taken EXCEPT !.current_path = IF is_tracking THEN path ELSE <<>>]
    /\ Goto("loop", "update_frame")
    /\ accesses' = IF is_tracking THEN {Access("loop", "path", "read")} ELSE {}
    /\ UNCHANGED <<trackerVars, frame_lock, current_frame, frames_processed,
                   last_spell>>

\* update_frame up to the with block: the path is drawn into display_frame,
\* _add_info_overlay reads self.stats and self.last_spell
LoopDraw ==
    /\ pc["loop"] = "update_frame"
    /\ Goto("loop", "frame_lock")
    /\ accesses' = {Access("loop", "stats", "read"),
                    Access("loop", "last_spell", "read")}
    /\ UNCHANGED <<trackerVars, frame_lock, locals, taken, current_frame,
                   frames_processed, last_spell>>

LoopFrameLock ==
    Acquire("loop", "frame_lock", "frame_write") /\ UNCHANGED trackerVars

\* update_frame inside the with block
LoopFrameWrite ==
    /\ pc["loop"] = "frame_write"
    /\ current_frame' = <<IF locals.current_path = None THEN <<>>
                          ELSE Items(locals.current_path)>>
    /\ frames_processed' = frames_processed + 1
    /\ Goto("loop", "frame_unlock")
    /\ accesses' = {Access("loop", "current_frame", "write"),
                    Access("loop", "stats", "write")}
    /\ UNCHANGED <<trackerVars, frame_lock, locals, taken, last_spell>>

\* the end of update_frame; run: if not is_tracking and len(self.tracker.path) > 0
LoopFrameUnlock ==
    /\ Release("loop", "frame_unlock",
               IF ~is_tracking /\ Len(path) > 0 THEN "cast_ended" ELSE "get_frame")
    /\ UNCHANGED trackerVars

\* run: path = self.tracker.get_path(), and what the cooldown and recognize
\* make of it: a spell to show, or nothing
LoopCastEnded ==
    /\ pc["loop"] = "cast_ended"
    /\ locals' = [locals EXCEPT !.path = get_path_list]
    /\ taken' = [taken EXCEPT !.path = path]
    /\ \E shown \in BOOLEAN : Goto("loop", IF shown THEN "spell_lock" ELSE "reset")
    /\ accesses' = {Access("loop", "path", "read")}
    /\ UNCHANGED <<trackerVars, frame_lock, current_frame, frames_processed,
                   last_spell>>

LoopSpellLock ==
    Acquire("loop", "spell_lock", "spell_write") /\ UNCHANGED trackerVars

\* web_viewer.log_spell inside the with block
LoopSpellWrite ==
    /\ pc["loop"] = "spell_write"
    /\ last_spell' = <<"spell">>
    /\ Goto("loop", "spell_unlock")
    /\ accesses' = {Access("loop", "last_spell", "write"),
                    Access("loop", "stats", "write")}
    /\ UNCHANGED <<trackerVars, frame_lock, locals, taken, current_frame,
                   frames_processed>>

LoopSpellUnlock ==
    Release("loop", "spell_unlock", "reset") /\ UNCHANGED trackerVars

\* run: self.tracker.reset()
LoopReset ==
    /\ pc["loop"] = "reset"
    /\ Reset
    /\ Goto("loop", "get_frame")
    /\ accesses' = {Access("loop", "path", "write")}
    /\ UNCHANGED <<frame_lock, locals, taken, current_frame, frames_processed,
                   last_spell>>

\* the fields a server thread reads inside its with block
Reads(t) ==
    IF t = "stats" THEN {"stats", "last_spell", "last_spell_time"}
    ELSE {"current_frame"}

\* a request arrives: stats() or _generate_frames enters its with block
ServerLock(t) == Acquire(t, "idle", "locked") /\ UNCHANGED trackerVars

\* inside the with block: jsonify of the stats, or self.current_frame.copy()
ServerRead(t) ==
    /\ pc[t] = "locked"
    /\ Goto(t, "unlock")
    /\ accesses' = {Access(t, f, "read") : f \in Reads(t)}
    /\ UNCHANGED <<trackerVars, frame_lock, locals, taken, current_frame,
                   frames_processed, last_spell>>

ServerUnlock(t) == Release(t, "unlock", "idle") /\ UNCHANGED trackerVars

NextViewer ==
    \/ LoopUpdate /\ UNCHANGED <<recognizerVars, statsVars, frameVars, loopVars, svcVars>>
    \/ LoopGetPath /\ UNCHANGED <<recognizerVars, statsVars, frameVars, loopVars, svcVars>>
    \/ LoopDraw /\ UNCHANGED <<recognizerVars, statsVars, frameVars, loopVars, svcVars>>
    \/ LoopFrameLock /\ UNCHANGED <<recognizerVars, statsVars, frameVars, loopVars, svcVars>>
    \/ LoopFrameWrite /\ UNCHANGED <<recognizerVars, statsVars, frameVars, loopVars, svcVars>>
    \/ LoopFrameUnlock /\ UNCHANGED <<recognizerVars, statsVars, frameVars, loopVars, svcVars>>
    \/ LoopCastEnded /\ UNCHANGED <<recognizerVars, statsVars, frameVars, loopVars, svcVars>>
    \/ LoopSpellLock /\ UNCHANGED <<recognizerVars, statsVars, frameVars, loopVars, svcVars>>
    \/ LoopSpellWrite /\ UNCHANGED <<recognizerVars, statsVars, frameVars, loopVars, svcVars>>
    \/ LoopSpellUnlock /\ UNCHANGED <<recognizerVars, statsVars, frameVars, loopVars, svcVars>>
    \/ LoopReset /\ UNCHANGED <<recognizerVars, statsVars, frameVars, loopVars, svcVars>>
    \/ \E t \in Threads \ {"loop"} :
          ServerLock(t) /\ UNCHANGED <<recognizerVars, statsVars, frameVars, loopVars, svcVars>>
    \/ \E t \in Threads \ {"loop"} :
          ServerRead(t) /\ UNCHANGED <<recognizerVars, statsVars, frameVars, loopVars, svcVars>>
    \/ \E t \in Threads \ {"loop"} :
          ServerUnlock(t) /\ UNCHANGED <<recognizerVars, statsVars, frameVars, loopVars, svcVars>>

SpecViewer == InitViewer /\ [][NextViewer]_vars

----------------------------------------------------------------------------
\* HomeAssistantAPI (potterpi/homeassistant_api.py): each method makes one
\* HTTP request through the requests library and turns its outcome into a
\* return value

\* the status codes a server answers with
StatusCodes == {200, 201, 401, 404, 500}

\* the body of a response: a JSON object, a JSON array, or text that is
\* not JSON
Bodies == {"object", "array", "text"}

\* the exceptions of requests.exceptions, all subclasses of RequestException;
\* since requests 2.27 the error of response.json() is one of them
RequestExceptions == {"Timeout", "ConnectionError", "JSONDecodeError"}

\* what requests.get and requests.post do with a request: they return a
\* response, or raise
Outcomes ==
    [kind : {"response"}, status_code : StatusCodes, body : Bodies,
     exc : {"none"}]
        \cup [kind : {"exception"}, status_code : {0}, body : {"none"},
              exc : {"Timeout", "ConnectionError"}]

Returned(v) == [status |-> "returned", value |-> v, exc |-> "none"]

Raised(e) == [status |-> "raised", value |-> "none", exc |-> e]

\* response.json(): the parsed body, or the error of the decoder, a
\* RequestException since requests 2.27 and a plain ValueError before
json(response, version) ==
    IF response.body = "text"
    THEN Raised(IF version = "2.27" THEN "JSONDecodeError" ELSE "ValueError")
    ELSE Returned(response.body)

\* try: ... except requests.exceptions.RequestException: return failure
except_RequestException(result, failure) ==
    IF result.status = "raised" /\ result.exc \in RequestExceptions
    THEN Returned(failure)
    ELSE result

\* the request itself: requests.get(...) or requests.post(...) raised
request_raised(outcome) == outcome.kind = "exception"

\* if response.status_code == 200
status_ok(outcome) == outcome.status_code = 200

test_connection(outcome, version) ==
    except_RequestException(
        IF request_raised(outcome) THEN Raised(outcome.exc)
        ELSE IF status_ok(outcome)
        THEN LET data == json(outcome, version) IN
             IF data.status = "raised" THEN data
             ELSE IF data.value # "object" THEN Raised("AttributeError")
             ELSE Returned("True")
        ELSE Returned("False"),
        "False")

fire_event(outcome) ==
    except_RequestException(
        IF request_raised(outcome) THEN Raised(outcome.exc)
        ELSE IF status_ok(outcome) THEN Returned("True")
        ELSE Returned("False"),
        "False")

call_service(outcome) ==
    except_RequestException(
        IF request_raised(outcome) THEN Raised(outcome.exc)
        ELSE IF status_ok(outcome) THEN Returned("True")
        ELSE Returned("False"),
        "False")

\* the list of states is returned as the body that was parsed
get_states(outcome, version) ==
    except_RequestException(
        IF request_raised(outcome) THEN Raised(outcome.exc)
        ELSE IF status_ok(outcome) THEN json(outcome, version)
        ELSE Returned("None"),
        "None")

\* a HomeAssistantAPI was constructed; the installed requests is either side
\* of 2.27
InitHA ==
    /\ TrackerIdle
    /\ RecognizerIdle
    /\ StatsIdle
    /\ FramesIdle
    /\ LoopIdle
    /\ ViewerIdle
    /\ ConfigIdle
    /\ LoggerIdle
    /\ requests_version \in {"2.26", "2.27"}
    /\ ha_call = [method |-> "none"]
    /\ ha_result = [status |-> "pending", value |-> "none", exc |-> "none"]

TestConnection ==
    \E outcome \in Outcomes :
        /\ ha_call' = [method |-> "test_connection", outcome |-> outcome]
        /\ ha_result' = test_connection(outcome, requests_version)
        /\ UNCHANGED requests_version

FireEvent ==
    \E outcome \in Outcomes :
        /\ ha_call' = [method |-> "fire_event", outcome |-> outcome]
        /\ ha_result' = fire_event(outcome)
        /\ UNCHANGED requests_version

CallService ==
    \E outcome \in Outcomes :
        /\ ha_call' = [method |-> "call_service", outcome |-> outcome]
        /\ ha_result' = call_service(outcome)
        /\ UNCHANGED requests_version

GetStates ==
    \E outcome \in Outcomes :
        /\ ha_call' = [method |-> "get_states", outcome |-> outcome]
        /\ ha_result' = get_states(outcome, requests_version)
        /\ UNCHANGED requests_version

NextHA ==
    \/ TestConnection /\ UNCHANGED <<trackerVars, recognizerVars, statsVars,
                                     frameVars, loopVars, viewerVars,
                                     configVars, loggerVars>>
    \/ FireEvent /\ UNCHANGED <<trackerVars, recognizerVars, statsVars,
                                frameVars, loopVars, viewerVars,
                                configVars, loggerVars>>
    \/ CallService /\ UNCHANGED <<trackerVars, recognizerVars, statsVars,
                                  frameVars, loopVars, viewerVars,
                                  configVars, loggerVars>>
    \/ GetStates /\ UNCHANGED <<trackerVars, recognizerVars, statsVars,
                                frameVars, loopVars, viewerVars,
                                configVars, loggerVars>>

SpecHA == InitHA /\ [][NextHA]_vars

----------------------------------------------------------------------------
\* Config.get and Config.set (potterpi/config.py:124-162); a key path is
\* the list of components that key_path.split('.') returns

\* the longest key path that is drawn
MaxKeys == 2

\* the components of the key paths that are drawn
Components == {"camera", "width"}

\* the key paths that are drawn
KeyPaths == UNION {[1..n -> Components] : n \in 1..MaxKeys}

\* the values that are set, and the defaults that get is given
ConfigValues == {Leaf(640), Leaf(1920)}

\* config[key] = value on a dict
SetItem(node, key, value) ==
    Dict([k \in DOMAIN node.items \cup {key} |->
             IF k = key THEN value ELSE node.items[k]])

\* Config.get: the loop over keys, from the dict value
RECURSIVE get_from(_, _, _)
get_from(value, keys, default) ==
    IF keys = <<>> THEN value
    ELSE IF value.kind = "dict" /\ Head(keys) \in DOMAIN value.items
    THEN get_from(value.items[Head(keys)], Tail(keys), default)
    ELSE default

get(self, key_path, default) == get_from(self, key_path, default)

\* Config.set from the dict node on: `key not in config` and
\* `config[key] = ...` raise TypeError when config is a number
RECURSIVE set_in(_, _, _)
set_in(node, keys, value) ==
    IF node.kind # "dict" THEN [raised |-> TRUE, node |-> node]
    ELSE IF Len(keys) = 1
    THEN [raised |-> FALSE, node |-> SetItem(node, keys[1], value)]
    ELSE LET key == Head(keys)
             created == IF key \in DOMAIN node.items THEN node
                        ELSE SetItem(node, key, EmptyDict)
             sub == set_in(created.items[key], Tail(keys), value)
         IN  [raised |-> sub.raised, node |-> SetItem(created, key, sub.node)]

set(self, key_path, value) == set_in(self, key_path, value)

\* a Config loaded from a file that holds {} or {"camera": {"width": 640}}
InitConfig ==
    /\ TrackerIdle
    /\ RecognizerIdle
    /\ StatsIdle
    /\ FramesIdle
    /\ LoopIdle
    /\ ViewerIdle
    /\ HAIdle
    /\ LoggerIdle
    /\ config \in {EmptyDict,
                   SetItem(EmptyDict, "camera",
                           SetItem(EmptyDict, "width", Leaf(640)))}
    /\ config_call = [op |-> "none"]
    /\ application = "none"

ConfigSet ==
    \E key_path \in KeyPaths, value \in ConfigValues :
        LET done == set(config, key_path, value) IN
        /\ config' = done.node
        /\ config_call' = [op |-> "set", key_path |-> key_path,
                           value |-> value, before |-> config,
                           raised |-> done.raised, result |-> Leaf(0)]
        /\ UNCHANGED application

ConfigGet ==
    \E key_path \in KeyPaths, default \in ConfigValues :
        /\ config_call' = [op |-> "get", key_path |-> key_path,
                           value |-> default, before |-> config,
                           raised |-> FALSE,
                           result |-> get(config, key_path, default)]
        /\ UNCHANGED <<config, application>>

NextConfig ==
    \/ ConfigSet /\ UNCHANGED <<trackerVars, recognizerVars, statsVars,
                                frameVars, loopVars, viewerVars, haVars,
                                loggerVars>>
    \/ ConfigGet /\ UNCHANGED <<trackerVars, recognizerVars, statsVars,
                                frameVars, loopVars, viewerVars, haVars,
                                loggerVars>>

SpecConfig == InitConfig /\ [][NextConfig]_vars

----------------------------------------------------------------------------
\* SpellLogger (spell_logger.py): every instance logs through the one
\* logger that logging.getLogger("PotterPi") returns

\* the SpellLogger instances that are constructed
MaxInstances == 2

\* the messages that are logged
MaxMessages == 3

\* logging.DEBUG, logging.INFO, logging.ERROR
DEBUG == 10

INFO == 20

ERROR == 40

\* RotatingFileHandler(self.log_path, ...) with setLevel(logging.INFO)
file_handler(log_path) == [stream |-> log_path, level |-> INFO]

\* logging.StreamHandler() with setLevel(logging.INFO)
console_handler == [stream |-> "stderr", level |-> INFO]

\* if not self.logger.handlers: addHandler(file_handler), addHandler(console_handler)
add_handlers(hs, log_path) ==
    IF hs = <<>> THEN <<file_handler(log_path), console_handler>> ELSE hs

\* Logger.handle: every handler whose level admits the record emits it once
emit(hs, fs, level, message) ==
    [f \in DOMAIN fs |->
        LET n == Cardinality({i \in DOMAIN hs :
                                 hs[i].stream = f /\ level >= hs[i].level})
        IN  fs[f] \o [i \in 1..n |-> message]]

\* the level at which each method logs
method_level(method) ==
    CASE method = "log_spell" -> INFO
      [] method = "log_info" -> INFO
      [] method = "log_error" -> ERROR
      [] method = "log_debug" -> DEBUG

InitLogger ==
    /\ TrackerIdle
    /\ RecognizerIdle
    /\ StatsIdle
    /\ FramesIdle
    /\ LoopIdle
    /\ ViewerIdle
    /\ HAIdle
    /\ ConfigIdle
    /\ LoggerIdle

\* SpellLogger(log_dir, log_file)
NewSpellLogger ==
    \E log_path \in LogPaths :
        /\ Len(instances) < MaxInstances
        /\ instances' = Append(instances, log_path)
        /\ handlers' = add_handlers(handlers, log_path)
        /\ log_call' = [op |-> "init", instance |-> Len(instances) + 1,
                        message |-> log_call.message]
        /\ UNCHANGED files

\* instance.log_spell / log_info / log_error / log_debug (message); the
\* messages are numbered, so that no two are alike
Log(method) ==
    \E i \in DOMAIN instances :
        LET message == log_call.message + 1 IN
        /\ message <= MaxMessages
        /\ files' = emit(handlers, files, method_level(method), message)
        /\ log_call' = [op |-> method, instance |-> i, message |-> message]
        /\ UNCHANGED <<handlers, instances>>

LogSpell == Log("log_spell")

LogInfo == Log("log_info")

LogError == Log("log_error")

LogDebug == Log("log_debug")

NextLogger ==
    \/ NewSpellLogger /\ UNCHANGED <<trackerVars, recognizerVars, statsVars,
                                     frameVars, loopVars, viewerVars, haVars,
                                     configVars>>
    \/ LogSpell /\ UNCHANGED <<trackerVars, recognizerVars, statsVars,
                               frameVars, loopVars, viewerVars, haVars,
                               configVars>>
    \/ LogInfo /\ UNCHANGED <<trackerVars, recognizerVars, statsVars,
                              frameVars, loopVars, viewerVars, haVars,
                              configVars>>
    \/ LogError /\ UNCHANGED <<trackerVars, recognizerVars, statsVars,
                               frameVars, loopVars, viewerVars, haVars,
                               configVars>>
    \/ LogDebug /\ UNCHANGED <<trackerVars, recognizerVars, statsVars,
                               frameVars, loopVars, viewerVars, haVars,
                               configVars>>

SpecLogger == InitLogger /\ [][NextLogger]_vars

----------------------------------------------------------------------------
\* The construction of the application from a loaded Config:
\* PotterPi.__init__ of potterpi/potterpi.py and of scripts/potterpi_ha.py

\* the values a configuration file gives each parameter: the default and
\* one other
FileValues ==
    [brightness_threshold : {200, 180}, min_movement : {5, 10},
     path_length : {30, 20}, min_points : {8, 5},
     straightness_threshold : {<<6, 10>>, <<8, 10>>},
     spell_cooldown : {1, 2}]

\* the configuration after json.load of a file that holds the sections of
\* _default_config with the values f
loaded_config(f) ==
    LET tracking ==
            [k \in {"brightness_threshold", "min_movement", "path_length"} |->
                Leaf(f[k])]
        recognition ==
            [k \in {"min_points", "straightness_threshold"} |-> Leaf(f[k])]
        logging == [k \in {"spell_cooldown"} |-> Leaf(f[k])]
    IN  Dict([section \in {"tracking", "recognition", "logging"} |->
            CASE section = "tracking" -> Dict(tracking)
              [] section = "recognition" -> Dict(recognition)
              [] section = "logging" -> Dict(logging)])

\* self.config.get(key_path, default) where a number is stored or missing
config_get(self, key_path, default) == get(self, key_path, Leaf(default)).v

\* the key paths potterpi/potterpi.py reads (lines 44-52 and 81)
potterpi_keys ==
    [brightness_threshold |-> <<"tracker", "brightness_threshold">>,
     min_movement |-> <<"tracker", "min_movement">>,
     path_length |-> <<"tracker", "path_length">>,
     min_points |-> <<"recognizer", "min_points">>,
     straightness_threshold |-> <<"recognizer", "straightness_threshold">>,
     spell_cooldown |-> <<"spell_cooldown">>]

\* the key paths scripts/potterpi_ha.py reads (lines 34-42 and 61)
potterpi_ha_keys ==
    [brightness_threshold |-> <<"tracking", "brightness_threshold">>,
     min_movement |-> <<"tracking", "min_movement">>,
     path_length |-> <<"tracking", "path_length">>,
     min_points |-> <<"recognition", "min_points">>,
     straightness_threshold |-> <<"recognition", "straightness_threshold">>,
     spell_cooldown |-> <<"logging", "spell_cooldown">>]

\* the defaults both applications pass to get
Defaults ==
    [brightness_threshold |-> 200, min_movement |-> 5, path_length |-> 30,
     min_points |-> 8, straightness_threshold |-> <<6, 10>>,
     spell_cooldown |-> 1]

\* Config(config_file) has loaded a file; no application is constructed
InitApp ==
    /\ TrackerIdle
    /\ RecognizerIdle
    /\ StatsIdle
    /\ FramesIdle
    /\ LoopIdle
    /\ ViewerIdle
    /\ HAIdle
    /\ LoggerIdle
    /\ config \in {loaded_config(f) : f \in FileValues}
    /\ config_call = [op |-> "none"]
    /\ application = "none"

\* __init__: the tracker, the recognizer and the cooldown are constructed
\* with what get returns for the keys
Construct(name, keys) ==
    /\ application = "none"
    /\ application' = name
    /\ brightness_threshold' =
           config_get(config, keys.brightness_threshold,
                      Defaults.brightness_threshold)
    /\ min_movement' =
           config_get(config, keys.min_movement, Defaults.min_movement)
    /\ path_length' =
           config_get(config, keys.path_length, Defaults.path_length)
    /\ min_points' = config_get(config, keys.min_points, Defaults.min_points)
    /\ straightness_threshold' =
           config_get(config, keys.straightness_threshold,
                      Defaults.straightness_threshold)
    /\ spell_cooldown' =
           config_get(config, keys.spell_cooldown, Defaults.spell_cooldown)
    /\ UNCHANGED <<path, last_position, is_casting, cast_start_time, now, op,
                   position, is_tracking, pre, recorded, points, spell,
                   frame, contour_order, running, last_spell_time, raised,
                   cast, calls, dispatched, config, config_call>>

\* PotterPi(config_file) of potterpi/potterpi.py
PotterPiInit == Construct("potterpi/potterpi.py", potterpi_keys)

\* PotterPi(config_file) of scripts/potterpi_ha.py
PotterPiHAInit == Construct("scripts/potterpi_ha.py", potterpi_ha_keys)

NextApp ==
    \/ PotterPiInit /\ UNCHANGED <<statsVars, viewerVars, haVars, loggerVars>>
    \/ PotterPiHAInit /\ UNCHANGED <<statsVars, viewerVars, haVars, loggerVars>>

SpecApp == InitApp /\ [][NextApp]_vars

----------------------------------------------------------------------------
\* recognize and get_spell_stats on the same path, as the frame loop calls
\* them (potterpi/potterpi.py:151-155)

\* the float64 of a whole number
float(n) == FRound(Big(n), 0, FALSE)

\* self.straightness_threshold as the float64 its literal denotes: 0.6 is
\* the float nearest to 6/10
threshold_float == fdiv(float(straightness_threshold[1]),
                        float(straightness_threshold[2]))

\* stats = self.recognizer.get_spell_stats(path), after recognize
StatsOfCast ==
    /\ spell # "pending"
    /\ GetSpellStats

NextRecognizeStats ==
    \/ Recognize /\ UNCHANGED <<trackerVars, extVars>>
    \/ StatsOfCast /\ UNCHANGED <<trackerVars, frameVars, loopVars,
                                  viewerVars, svcVars>>

SpecRecognizeStats == InitRecognize /\ [][NextRecognizeStats]_vars

----------------------------------------------------------------------------
\* Properties of the tracker, checked under Spec

\* the last call was update(frame)
Updated == op = "update"

\* the tracker fields when the last call began
Before ==
    [path |-> pre.path, last_position |-> pre.last_position,
     is_casting |-> pre.is_casting, cast_start_time |-> pre.cast_start_time]

\* the last n items of s
LastN(s, n) == SubSeq(s, Len(s) - n + 1, Len(s))

Min(a, b) == IF a <= b THEN a ELSE b

\* C1: after any sequence of update and reset calls the path never holds more
\* than path_length points
C1_PathNeverExceedsPathLength == Len(path) <= path_length

\* C1 witness: more positions were recorded in a cast than the path can hold
C1_Witness_Overflowed ==
    /\ Updated
    /\ path_length >= 1
    /\ Len(recorded) > path_length
    /\ Len(path) = path_length

\* C2: an update that finds no wand while Casting ends the cast in that call,
\* clears the last-seen position, keeps the path and returns false; while Idle
\* it changes nothing and returns false
C2_LostWandEndsCast ==
    (Updated /\ position = None) =>
        /\ is_tracking = FALSE
        /\ IF pre.is_casting
           THEN ~is_casting /\ last_position = None /\ path = pre.path
           ELSE Self = Before

\* C3 as stated: an update that finds p while Idle starts a cast whose path
\* is exactly [p]
C3_Original_PathIsExactlyP ==
    (Updated /\ position # None /\ ~pre.is_casting) =>
        /\ is_casting
        /\ path = <<position>>
        /\ cast_start_time = <<pre.now>>
        /\ last_position = position
        /\ is_tracking = TRUE

\* C3 amended: an update that finds p while Idle starts a cast, discards the
\* points of the earlier cast, sets cast_start_time to the current time and
\* last-seen to p and returns true; the path is [p] when path_length >= 1 and
\* empty when path_length = 0
C3_IdleToCasting ==
    (Updated /\ position # None /\ ~pre.is_casting) =>
        /\ is_casting
        /\ path = IF path_length >= 1 THEN <<position>> ELSE <<>>
        /\ cast_start_time = <<pre.now>>
        /\ last_position = position
        /\ is_tracking = TRUE

\* C3 witness: a cast started while points of an earlier cast were still held
C3_Witness_LeftoverDiscarded ==
    /\ Updated /\ position # None /\ ~pre.is_casting
    /\ Len(pre.path) >= 2
    /\ path = <<position>>
    /\ pre.cast_start_time # None /\ pre.cast_start_time # cast_start_time

\* C4: a found position strictly closer than min_movement to the last-seen one
\* changes no tracker state, records nothing and returns true iff Casting; a
\* position exactly min_movement away is recorded
C4_MovementGate ==
    (Updated /\ position # None /\ pre.last_position # None) =>
        LET d2 == SquaredDistance(position, pre.last_position)
            m2 == min_movement * min_movement
        IN /\ d2 < m2 => /\ Self = Before
                          /\ recorded = pre.recorded
                          /\ is_tracking = pre.is_casting
           /\ d2 = m2 => /\ last_position = position
                          /\ recorded # <<>>
                          /\ recorded[Len(recorded)] = position
                          /\ Len(recorded) = Len(pre.recorded) + 1
                          /\ is_tracking = TRUE

\* C4 witness: a position 3 away from the last-seen one was suppressed
C4_Witness_Suppressed ==
    /\ Updated /\ position # None /\ pre.last_position # None
    /\ position # pre.last_position
    /\ SquaredDistance(position, pre.last_position) < min_movement * min_movement
    /\ Self = Before
    /\ is_tracking = TRUE

\* C5: the path is always the last min(k, path_length) positions recorded
\* since the path was last cleared, in the order they were recorded
C5_PathIsTailOfRecorded ==
    get_path = LastN(recorded, Min(Len(recorded), path_length))

\* C5 witness: the oldest point of a cast of three distinct points was evicted
C5_Witness_OldestEvicted ==
    /\ path_length = 2
    /\ Len(recorded) = 3
    /\ recorded[1] # recorded[2] /\ recorded[2] # recorded[3]
    /\ recorded[1] # recorded[3]
    /\ get_path = <<recorded[2], recorded[3]>>

\* C6: reset leaves the tracker as a freshly constructed one, from every
\* reachable state, and a second reset changes nothing
C6_ResetRestoresFreshState ==
    /\ reset(Self) = NewTracker
    /\ reset(reset(Self)) = reset(Self)
    /\ op = "reset" => Self = NewTracker

\* C6 witness: reset was called on a tracker that was casting
C6_Witness_ResetWhileCasting ==
    /\ op = "reset"
    /\ pre.is_casting /\ pre.path # <<>> /\ pre.cast_start_time # None
    /\ Self = NewTracker

\* C7 as stated: get_cast_duration is now - cast_start_time while Casting and
\* 0 in every Idle state
C7_Original_ZeroWheneverIdle ==
    /\ is_casting => get_cast_duration = now - cast_start_time[1]
    /\ ~is_casting => get_cast_duration = 0

\* C7 amended: get_cast_duration is now - cast_start_time whenever a cast has
\* started since construction or the last reset, whether the tracker is still
\* Casting or Idle after the wand was lost, and 0 before any cast and after
\* reset; cast_start_time is the time of the Idle-to-Casting transition and
\* later points of the cast do not change it
C7_CastDuration ==
    /\ recorded # <<>> =>
          /\ cast_start_time # None
          /\ get_cast_duration = now - cast_start_time[1]
    /\ recorded = <<>> => get_cast_duration = 0
    /\ (Updated /\ ~pre.is_casting /\ is_casting) =>
          cast_start_time = <<pre.now>>
    /\ (Updated /\ pre.is_casting) => cast_start_time = pre.cast_start_time

\* C7 witness: the wand was lost and time has passed since the cast started
C7_Witness_DurationAfterLoss ==
    /\ ~is_casting
    /\ recorded # <<>>
    /\ get_cast_duration = 2

----------------------------------------------------------------------------
\* Properties of recognize, checked under SpecRecognize

\* recognize has returned
Recognized == spell # "pending"

\* the net displacement of the path handed to recognize
NetDx == points[Len(points)][1] - points[1][1]
NetDy == points[Len(points)][2] - points[1][2]

\* C8: a path with fewer than min_points points is rejected with none,
\* whatever its shape or extent
C8_TooFewPointsIsNone ==
    (Recognized /\ Len(points) < min_points) => spell = NoSpell

\* C8 witness: a straight path 40 pixels long was rejected for its point count
C8_Witness_LongPathTooFewPoints ==
    /\ Recognized
    /\ Len(points) = 2 /\ min_points = 3
    /\ NetDx = 40 /\ NetDy = 0
    /\ spell = NoSpell

\* C9: a path of at least min_points points that ends where it started is
\* rejected with none, never reported as Unknown
C9_ZeroNetDisplacementIsNone ==
    (Recognized /\ Len(points) >= 1 /\ Len(points) >= min_points
       /\ points[1] = points[Len(points)]) => spell = NoSpell

\* C9 witness: a path went 40 pixels away, came back, and was rejected
C9_Witness_OutAndBack ==
    /\ Recognized
    /\ Len(points) = 3 /\ min_points <= 3
    /\ points[1] = points[3]
    /\ total_distance(points) = 80
    /\ spell = NoSpell

\* C10: a path of at least min_points points with non-zero net displacement
\* is Unknown exactly when straight_distance / total_distance is strictly
\* below straightness_threshold, whatever its net displacement
C10_UnknownIffBelowThreshold ==
    (Recognized /\ Len(points) >= 1 /\ Len(points) >= min_points
       /\ points[1] # points[Len(points)]) =>
        LET straight2 == NetDx * NetDx + NetDy * NetDy
            total == total_distance(points)
            num == straightness_threshold[1]
            den == straightness_threshold[2]
        IN spell = UNKNOWN <=> straight2 * den * den < num * num * total * total

\* C10 witness: a curved path with a net displacement of 10 pixels is Unknown
C10_Witness_CurvedAndSmall ==
    /\ Recognized
    /\ Len(points) >= 1 /\ Len(points) >= min_points
    /\ Max(Abs(NetDx), Abs(NetDy)) = 10
    /\ spell = UNKNOWN

\* the four direction labels
Directions == {HORIZONTAL_RIGHT, HORIZONTAL_LEFT, VERTICAL_UP, VERTICAL_DOWN}

\* the path handed to recognize passed the point-count, net-displacement and
\* straightness checks
PassedStraightness ==
    /\ Recognized
    /\ Len(points) >= 1 /\ Len(points) >= min_points
    /\ points[1] # points[Len(points)]
    /\ LET total == total_distance(points)
           num == straightness_threshold[1]
           den == straightness_threshold[2]
       IN (NetDx * NetDx + NetDy * NetDy) * den * den >= num * num * total * total

\* C11: a path that passed the point-count, net-displacement and straightness
\* checks is rejected with none when max(|dx|, |dy|) < 30 and gets a direction
\* label when max(|dx|, |dy|) >= 30
C11_MinimumDisplacement ==
    PassedStraightness =>
        IF Max(Abs(NetDx), Abs(NetDy)) < 30
        THEN spell = NoSpell
        ELSE spell \in Directions

\* C11 witness: a straight path of exactly 30 pixels got a direction label
C11_Witness_ExactlyThirty ==
    /\ PassedStraightness
    /\ Max(Abs(NetDx), Abs(NetDy)) = 30
    /\ spell \in Directions

\* C12: a path that passed every rejection check is Right when |dx| > |dy| and
\* dx > 0, Left when |dx| > |dy| and dx < 0, and otherwise Down when dy > 0
\* and Up when dy < 0, the tie |dx| = |dy| included
C12_DominantAxis ==
    (PassedStraightness /\ Max(Abs(NetDx), Abs(NetDy)) >= 30) =>
        /\ (Abs(NetDx) > Abs(NetDy) /\ NetDx > 0) => spell = HORIZONTAL_RIGHT
        /\ (Abs(NetDx) > Abs(NetDy) /\ NetDx < 0) => spell = HORIZONTAL_LEFT
        /\ (Abs(NetDx) <= Abs(NetDy) /\ NetDy > 0) => spell = VERTICAL_DOWN
        /\ (Abs(NetDx) <= Abs(NetDy) /\ NetDy < 0) => spell = VERTICAL_UP
        /\ NetDx # 0 \/ NetDy # 0

\* C12 witness: a path with dx = -30 and dy = 30 went to the vertical branch
C12_Witness_TieIsVertical ==
    /\ PassedStraightness
    /\ NetDx = -30 /\ NetDy = 30
    /\ spell = VERTICAL_DOWN

\* get_spell_stats has been called on points
StatsTaken == stats.status # "pending"

\* the segment from p[i] to p[i + 1]
Segment(p, i) == <<p[i + 1][1] - p[i][1], p[i + 1][2] - p[i][2]>>

\* the points lie in order on one straight line and are not all the same
\* point: any two segments are parallel and point the same way
InOrderOnLine(p) ==
    /\ Len(p) >= 2
    /\ \E i \in 1..(Len(p) - 1) : Segment(p, i) # <<0, 0>>
    /\ \A i, j \in 1..(Len(p) - 1) :
          /\ Segment(p, i)[1] * Segment(p, j)[2] = Segment(p, i)[2] * Segment(p, j)[1]
          /\ Segment(p, i)[1] * Segment(p, j)[1] + Segment(p, i)[2] * Segment(p, j)[2] >= 0

\* every segment has a whole length
WholeSegments(p) ==
    \A i \in 1..(Len(p) - 1) : IsSquare(SquaredDistance(p[i], p[i + 1]))

\* the record get_spell_stats returns is none exactly for paths shorter than
\* two points, and otherwise describes the path
StatsRecord ==
    /\ stats.status = "none" <=> Len(points) < 2
    /\ stats.status = "stats" =>
          /\ stats.num_points = Len(points)
          /\ stats.start = points[1]
          /\ stats.end = points[Len(points)]
          /\ stats.displacement = <<stats.end[1] - stats.start[1],
                                    stats.end[2] - stats.start[2]>>
          /\ stats.straight_distance =
                 fsqrt(SquaredDistance(stats.start, stats.end))
          /\ FLess(FZero, stats.total_distance) =>
                 stats.straightness =
                     fdiv(stats.straight_distance, stats.total_distance)

\* C13: get_spell_stats returns none exactly for paths of length 0
\* or 1, otherwise the record of the path, whose straightness is 1.0 for
\* every path whose points lie in order on one straight line
C13_SpellStats ==
    StatsTaken =>
        /\ StatsRecord
        /\ InOrderOnLine(points) => stats.straightness = FOne

\* C13 with whole segment lengths: get_spell_stats returns none exactly for paths of length 0
\* or 1, otherwise the record of the path; the straightness is 1.0 for a
\* path whose points lie in order on one straight line when every segment
\* has a whole length, and 0 when total_distance is 0
C13_SpellStatsWholeSegments ==
    StatsTaken =>
        /\ StatsRecord
        /\ (InOrderOnLine(points) /\ WholeSegments(points)) =>
               stats.straightness = FOne
        /\ (stats.status = "stats" /\ stats.total_distance = FZero) =>
               stats.straightness = FZero

\* stats were taken of a three-point path along one axis
StatsThreeOnAxis ==
    /\ StatsTaken
    /\ points = <<(<<0, 0>>), (<<3, 0>>), (<<4, 0>>)>>
    /\ stats.num_points = 3
    /\ stats.straightness = FOne

\* C14: the straightness get_spell_stats computes is never above 1 (and
\* never below 0)
C14_StraightnessAtMostOne ==
    (StatsTaken /\ stats.status = "stats") =>
        /\ ~FLess(FOne, stats.straightness)
        /\ ~FLess(stats.straightness, FZero)

----------------------------------------------------------------------------
\* Properties of find_wand

\* update has been called on frame
FrameSeen == op = "update" /\ frame # <<>>

\* the pixels of the frame above brightness_threshold
BrightPixels == {p \in Pixels : frame[p] > brightness_threshold}

\* the bright regions of the frame: rectangles of bright pixels that no
\* other bright pixel touches
BrightRegions ==
    {r \in Rects :
        /\ \A p \in Pixels : InRect(r, p) => p \in BrightPixels
        /\ AroundRect(r) \cap BrightPixels = {}}

\* the sum and the number of the pixels of a region
RegionSum(r) == SumOver(frame, {p \in Pixels : InRect(r, p)})
RegionSize(r) == (r.x1 - r.x0 + 1) * (r.y1 - r.y0 + 1)

\* region r comes before region q in the order of the library
Earlier(r, q) ==
    IF contour_order = "scan" THEN ScanIndex(r) < ScanIndex(q)
    ELSE ScanIndex(r) > ScanIndex(q)

\* r has the highest mean brightness, and is the first of those that have
IsSelected(r) ==
    /\ r \in BrightRegions
    /\ \A q \in BrightRegions \ {r} :
          \/ RegionSum(r) * RegionSize(q) > RegionSum(q) * RegionSize(r)
          \/ /\ RegionSum(r) * RegionSize(q) = RegionSum(q) * RegionSize(r)
             /\ Earlier(r, q)

\* the mean of the pixel coordinates of a region, cut to whole pixels
Centroid(r) ==
    LET ps == {p \in Pixels : InRect(r, p)}
        xs == [p \in Pixels |-> p[1]]
        ys == [p \in Pixels |-> p[2]]
    IN <<SumOver(xs, ps) \div Cardinality(ps), SumOver(ys, ps) \div Cardinality(ps)>>

\* a region that is at least two pixels wide and two pixels high
HasArea(r) == r.x1 > r.x0 /\ r.y1 > r.y0

\* C15: on a frame in which no pixel reaches brightness_threshold find_wand
\* returns none, and update on that frame starts no cast
C15_DarkFrameFindsNothing ==
    (FrameSeen /\ \A p \in Pixels : frame[p] < brightness_threshold) =>
        /\ position = None
        /\ is_tracking = FALSE
        /\ ~is_casting
        /\ path = pre.path

\* an idle tracker was given a frame with a blob dimmer than the threshold
C15_Witness_DimBlob ==
    /\ FrameSeen
    /\ ~pre.is_casting
    /\ \E p \in Pixels : frame[p] > 0
    /\ \A p \in Pixels : frame[p] < brightness_threshold
    /\ position = None

\* C16: on a frame in which a pixel exceeds brightness_threshold find_wand
\* returns the centroid of the selected bright region, whatever its shape;
\* it returns none only when no pixel exceeds the threshold
C16_BrightPixelIsFound ==
    FrameSeen =>
        /\ position = None <=> BrightPixels = {}
        /\ \A r \in BrightRegions : IsSelected(r) => position = Centroid(r)

\* C16 for regions with area: find_wand returns the centroid of the
\* selected region when that is at least two pixels wide and high, and none
\* when it is not or when no pixel exceeds the threshold
C16_RegionWithAreaIsFound ==
    FrameSeen =>
        /\ BrightPixels = {} => position = None
        /\ \A r \in BrightRegions : IsSelected(r) =>
               position = IF HasArea(r) THEN Centroid(r) ELSE None

\* the frame's only bright region has area, and its centroid was returned
RegionWithAreaFound ==
    /\ FrameSeen
    /\ \E r \in BrightRegions :
          BrightRegions = {r} /\ HasArea(r) /\ position = Centroid(r)

\* C17: on a frame with several bright regions find_wand returns the
\* centroid of the region of the highest mean brightness, the first of them
\* in the order of discovery when several have that mean
C17_BrightestRegionWins ==
    (FrameSeen /\ Cardinality(BrightRegions) >= 2) =>
        \A r \in BrightRegions : IsSelected(r) => position = Centroid(r)

\* C17 for regions with area: of several bright regions the one of the
\* highest mean, the first of them on a tie, gives the position when it has
\* area
C17_BrightestRegionWithAreaWins ==
    (FrameSeen /\ Cardinality(BrightRegions) >= 2) =>
        \A r \in BrightRegions : (IsSelected(r) /\ HasArea(r)) =>
            position = Centroid(r)

\* two regions of the same mean brightness and with different centroids:
\* the first one was returned
TieWentToFirst ==
    /\ FrameSeen
    /\ \E r, q \in BrightRegions :
          /\ r # q
          /\ RegionSum(r) * RegionSize(q) = RegionSum(q) * RegionSize(r)
          /\ Earlier(r, q)
          /\ HasArea(r) /\ HasArea(q)
          /\ position = Centroid(r)
          /\ position # Centroid(q)

----------------------------------------------------------------------------
\* Properties of the frame loop

\* the last step was an iteration of the loop
Iterated == op = "iteration"

\* C18: an exception raised by a collaborator call of an iteration
\* (web_viewer.update_frame, logger.log_spell, web_viewer.log_spell,
\* trigger_spell_action) never ends the loop
C18_CollaboratorFailureKeepsLoopRunning ==
    (Iterated /\ raised # "none") => running

\* an exception of trigger_spell_action is caught: the loop keeps running,
\* the spell counts for the cooldown and the tracker is reset
TriggerFailureIsCaught ==
    (Iterated /\ raised = "trigger_spell_action") =>
        /\ running
        /\ last_spell_time = pre.now
        /\ Self = NewTracker

\* trigger_spell_action raised after the spell was logged
TriggerFailed ==
    /\ Iterated
    /\ raised = "trigger_spell_action"
    /\ "log_spell" \in calls

\* C19: the loop records a cast for which recognize returns Unknown as a
\* gesture attempt, and drops a cast for which recognize returns none
\* without recording it
C19_UnknownIsRecordedNoneIsNot ==
    (Iterated /\ cast = "examined") =>
        /\ spell = UNKNOWN => "log_spell" \in calls
        /\ spell = NoSpell => "log_spell" \notin calls

\* the loop does the same for Unknown as for none: no collaborator is told
\* of the cast, the cooldown does not start, the tracker is reset
UnknownIsDroppedLikeNone ==
    (Iterated /\ cast = "examined" /\ spell \in {UNKNOWN, NoSpell}) =>
        /\ calls = {"update_frame"}
        /\ Self = NewTracker
        /\ running

\* a cast of three points was examined and recognize returned Unknown
UnknownCastExamined ==
    /\ Iterated
    /\ cast = "examined"
    /\ spell = UNKNOWN
    /\ Len(points) = 3

\* a cast of one point was examined and recognize returned none
NoneCastExamined ==
    /\ Iterated
    /\ cast = "examined"
    /\ spell = NoSpell

\* a cast was recognized as a direction and every collaborator was told
SpellDispatched ==
    /\ Iterated
    /\ spell \in Directions
    /\ calls = Collaborators

----------------------------------------------------------------------------
\* Properties of the threads

\* the fields of the viewer that the frame loop and the server threads share
SharedFields == {"current_frame", "stats", "last_spell", "last_spell_time"}

\* C20: only the frame loop reads or changes the tracker's path; a list that
\* get_path returned holds the points it held when it was returned, whatever
\* update and reset did since; a server thread reads current_frame, stats
\* and last_spell only while it holds frame_lock, and the frame loop holds
\* frame_lock whenever it writes them
C20_PathIsCopiedAndViewerIsLocked ==
    /\ \A a \in accesses :
          /\ a.field = "path" => a.thread = "loop"
          /\ (a.thread # "loop" /\ a.field \in SharedFields) =>
                 a.mode = "read" /\ a.holder = a.thread
          /\ (a.mode = "write" /\ a.field \in SharedFields) =>
                 a.thread = "loop" /\ a.holder = "loop"
    /\ locals.current_path # None => Items(locals.current_path) = taken.current_path
    /\ locals.path # None => Items(locals.path) = taken.path

\* a server thread reads the stats under the lock while the frame loop,
\* which holds a list that the tracker's path has moved away from, waits
\* for the lock
C20_Witness_ReadWhileLoopWaits ==
    /\ \E a \in accesses : a.thread = "stats" /\ a.holder = "stats"
    /\ pc["loop"] \in {"frame_lock", "spell_lock"}
    /\ locals.path # None
    /\ Items(locals.path) # path

----------------------------------------------------------------------------
\* Properties of the Home Assistant client, checked under SpecHA

\* a method of the client was called
HACalled == ha_call.method # "none"

\* the methods that answer with a bool
BoolMethods == {"test_connection", "fire_event", "call_service"}

\* the server answered the last request with status 200
Answered200 ==
    ha_call.outcome.kind = "response" /\ ha_call.outcome.status_code = 200

\* C21: test_connection, fire_event and call_service return True exactly
\* when the response has status 200 and False for every other status and for
\* every RequestException; no method raises a RequestException; get_states
\* returns None in those failure cases
C21_TrueExactlyOnStatus200 ==
    HACalled =>
        /\ ha_call.method \in BoolMethods =>
               ha_result = Returned(IF Answered200 THEN "True" ELSE "False")
        /\ ha_result.status = "raised" => ha_result.exc \notin RequestExceptions
        /\ (ha_call.method = "get_states" /\ ~Answered200) =>
               ha_result = Returned("None")

\* what holds of test_connection: True exactly when the status is 200 and
\* the body is a JSON object; fire_event and call_service do as C21 says
TrueOnStatus200AndJsonObject ==
    HACalled =>
        /\ ha_call.method \in {"fire_event", "call_service"} =>
               ha_result = Returned(IF Answered200 THEN "True" ELSE "False")
        /\ ha_call.method = "test_connection" =>
               /\ ha_result = Returned("True") <=>
                      Answered200 /\ ha_call.outcome.body = "object"
               /\ ~Answered200 => ha_result = Returned("False")
        /\ ha_result.status = "raised" => ha_result.exc \notin RequestExceptions
        /\ (ha_call.method = "get_states" /\ ~Answered200) =>
               ha_result = Returned("None")

\* test_connection got status 200 with a body that is not JSON and did not
\* return True
Status200NotTrue ==
    /\ ha_call.method = "test_connection"
    /\ Answered200
    /\ ha_result # Returned("True")

----------------------------------------------------------------------------
\* Properties of the configuration, checked under SpecConfig

\* p is a proper or improper prefix of q
IsPrefix(p, q) == Len(p) <= Len(q) /\ SubSeq(q, 1, Len(p)) = p

\* neither path is a prefix of the other
Unrelated(p, q) == ~IsPrefix(p, q) /\ ~IsPrefix(q, p)

\* the dict tree holds a value at every component of the path
RECURSIVE HasPath(_, _)
HasPath(node, keys) ==
    \/ keys = <<>>
    \/ /\ node.kind = "dict"
       /\ Head(keys) \in DOMAIN node.items
       /\ HasPath(node.items[Head(keys)], Tail(keys))

\* the last call was set(k, v): it returned, get(k) is now v, and get of
\* every unrelated path returns what it returned before
SetRoundTrip ==
    /\ ~config_call.raised
    /\ \A d \in ConfigValues :
          /\ get(config, config_call.key_path, d) = config_call.value
          /\ \A p \in KeyPaths :
                 Unrelated(p, config_call.key_path) =>
                     get(config, p, d) = get(config_call.before, p, d)

\* the last call was get(p, d) of a path with a missing component: it
\* returned d
GetDefault ==
    ~HasPath(config, config_call.key_path) =>
        config_call.result = config_call.value

\* C22: set(k, v) followed by get(k) returns v, for every key path k and
\* value v, with missing sections created; get of every path that is
\* neither a prefix nor an extension of k is unchanged by the set; get of
\* a path with a missing component returns the default
C22_SetThenGetRoundTrip ==
    /\ config_call.op = "set" => SetRoundTrip
    /\ config_call.op = "get" => GetDefault

\* a component before the last one of k names a value that is not a dict
ThroughLeaf ==
    \E i \in 1..(Len(config_call.key_path) - 1) :
        LET prefix == SubSeq(config_call.key_path, 1, i) IN
        /\ HasPath(config_call.before, prefix)
        /\ get(config_call.before, prefix, EmptyDict).kind = "leaf"

\* what holds: set raises exactly when k leads through a value that is not
\* a dict, and then changes nothing; every other set does as C22 says
SetRoundTripUnlessThroughLeaf ==
    /\ config_call.op = "set" =>
          /\ config_call.raised <=> ThroughLeaf
          /\ config_call.raised => config = config_call.before
          /\ ~config_call.raised => SetRoundTrip
    /\ config_call.op = "get" => GetDefault

\* set created a missing section on the way to k
SectionCreated ==
    /\ config_call.op = "set"
    /\ ~config_call.raised
    /\ Len(config_call.key_path) = 2
    /\ ~HasPath(config_call.before, SubSeq(config_call.key_path, 1, 1))

\* set was called with a path below a number, and raised
SetThroughLeafRaised == config_call.op = "set" /\ config_call.raised

----------------------------------------------------------------------------
\* Properties of the log, checked under SpecLogger

\* how often message m stands in the lines of a file
Occurrences(lines, m) == Cardinality({i \in DOMAIN lines : lines[i] = m})

\* the methods that log at INFO or above
C23Methods == {"log_spell", "log_info", "log_error"}

\* C23: a message logged through an instance with log_spell, log_info or
\* log_error stands exactly once in the file at that instance's log_path,
\* whatever instances were constructed before it
C23_WrittenOnceToOwnLogPath ==
    log_call.op \in C23Methods =>
        Occurrences(files[instances[log_call.instance]], log_call.message) = 1

\* what holds: the message stands exactly once in the file of the first
\* instance that was constructed in the process, and in no other file
WrittenOnceToFirstLogPath ==
    log_call.op \in C23Methods =>
        \A f \in LogPaths :
            Occurrences(files[f], log_call.message) =
                IF f = instances[1] THEN 1 ELSE 0

\* a second instance with a log_path of its own logged a message
SecondInstanceLogged ==
    /\ log_call.op \in C23Methods
    /\ log_call.instance = 2
    /\ instances[2] # instances[1]

----------------------------------------------------------------------------
\* Properties of the cooldown, checked under SpecLoop

\* the cast that the iteration examined ended less than spell_cooldown after
\* the last dispatched cast
EndedWithinCooldown ==
    /\ cast' # "none"
    /\ dispatched # None
    /\ now - dispatched[1] < spell_cooldown

\* C24: in a step of the loop that is an iteration, a cast is dispatched
\* only if no cast was dispatched before or the last one was dispatched at
\* least spell_cooldown earlier; a cast that ends within the cooldown is not
\* passed to recognize, nothing is dispatched and the tracker is reset; and
\* last_spell_time changes only when the cast is recognized as a direction
C24_CooldownBetweenDispatches ==
    [][now' = now =>
          /\ (cast' = "examined" /\ spell' \in Directions) =>
                 \/ dispatched = None
                 \/ now - dispatched[1] >= spell_cooldown
          /\ EndedWithinCooldown =>
                 /\ cast' = "cooldown"
                 /\ spell' = "pending" /\ points' = <<>>
                 /\ calls' \subseteq {"update_frame"}
                 /\ path' = <<>> /\ ~is_casting' /\ last_position' = None
          /\ last_spell_time' # last_spell_time =>
                 /\ cast' = "examined" /\ spell' \in Directions
                 /\ last_spell_time' = now
          /\ dispatched' # dispatched => spell' \in Directions]_vars

\* a cast ended within the cooldown of a dispatched cast and was discarded
C24_Witness_DiscardedInCooldown ==
    /\ Iterated
    /\ cast = "cooldown"
    /\ dispatched # None
    /\ now - dispatched[1] < spell_cooldown
    /\ path = <<>>

----------------------------------------------------------------------------
\* Properties of the construction, checked under SpecApp

\* the value the loaded configuration holds for each parameter in its
\* tracking, recognition and logging sections
Configured(parameter) ==
    get(config, potterpi_ha_keys[parameter], EmptyDict).v

\* the parameters the constructed application runs with
Parameters ==
    [brightness_threshold |-> brightness_threshold,
     min_movement |-> min_movement, path_length |-> path_length,
     min_points |-> min_points,
     straightness_threshold |-> straightness_threshold,
     spell_cooldown |-> spell_cooldown]

\* C25: the main application runs with the brightness_threshold,
\* min_movement, path_length, min_points, straightness_threshold and
\* spell_cooldown that the tracking, recognition and logging sections of the
\* loaded configuration hold
C25_ParametersComeFromConfig ==
    application = "potterpi/potterpi.py" =>
        \A parameter \in DOMAIN Parameters :
            Parameters[parameter] = Configured(parameter)

\* what holds: potterpi/potterpi.py runs with the built-in defaults whatever
\* those sections hold, and scripts/potterpi_ha.py runs with their values
MainIgnoresSectionsScriptReadsThem ==
    /\ application = "potterpi/potterpi.py" => Parameters = Defaults
    /\ application = "scripts/potterpi_ha.py" =>
           \A parameter \in DOMAIN Parameters :
               Parameters[parameter] = Configured(parameter)

\* the main application was constructed from a file that changes min_points
MainConstructedFromChangedFile ==
    /\ application = "potterpi/potterpi.py"
    /\ Configured("min_points") = 5
    /\ min_points = 8

----------------------------------------------------------------------------
\* Properties of the examination of ended casts, checked under SpecLoop

\* the wand was lost in the last iteration while a cast was in progress
CastEnded ==
    /\ Iterated
    /\ position = None
    /\ pre.is_casting
    /\ Len(pre.path) > 0

\* the tracker is as reset() leaves it
TrackerIsReset ==
    /\ path = <<>>
    /\ last_position = None
    /\ ~is_casting
    /\ cast_start_time = None

\* the cast that ended in the last iteration was examined in it, with the
\* path as it stood when the wand was lost, and the tracker was reset; no
\* other iteration examined a cast; the path is empty after every iteration
\* in which update returned false
ExaminedInSameIteration ==
    /\ CastEnded =>
          /\ cast \in {"cooldown", "examined"}
          /\ cast = "examined" => points = pre.path
          /\ TrackerIsReset
    /\ (Iterated /\ cast # "none") => CastEnded
    /\ (Iterated /\ ~is_tracking) => path = <<>>

\* C26: every cast that ends is examined exactly once, in the iteration in
\* which the wand was lost and with the path as it stood then (cooldown
\* check, then recognize), and the tracker is reset before the next frame;
\* the path is empty at the end of every iteration in which update returned
\* false
C26_EndedCastExaminedOnce == ExaminedInSameIteration

\* what holds: the same, for every iteration that no exception left
ExaminedOnceUnlessLoopLeft == running => ExaminedInSameIteration

\* the wand was lost in an iteration that an exception left: the cast was
\* not examined or the tracker still holds its path
EndedCastLeftBehind ==
    /\ CastEnded
    /\ ~running
    /\ path # <<>>

----------------------------------------------------------------------------
\* Properties of the tracker between calls, checked under Spec

\* the last update found a position that the movement gate suppressed
Suppressed ==
    /\ Updated
    /\ position # None
    /\ pre.last_position # None
    /\ SquaredDistance(position, pre.last_position) < min_movement * min_movement

\* an update suppressed by the gate happened in state Casting and returned
\* true; a position found in state Idle was recorded
GateOnlyWhileCasting ==
    /\ Suppressed => pre.is_casting /\ is_tracking
    /\ (Updated /\ position # None /\ ~pre.is_casting) =>
           /\ is_tracking
           /\ last_position = position
           /\ recorded = <<position>>

\* C27: between any two calls the tracker is Casting if and only if it holds
\* a last-seen position; so an update suppressed by the movement gate
\* happens in state Casting and returns true, and the first position seen in
\* state Idle is never suppressed
C27_CastingIffLastSeen ==
    /\ is_casting <=> last_position # None
    /\ GateOnlyWhileCasting

\* what holds: a tracker that holds a last-seen position is Casting, and one
\* with path_length >= 1 that is Casting holds a last-seen position; the
\* gate acts as C27 says
LastSeenOnlyWhileCasting ==
    /\ last_position # None => is_casting
    /\ (path_length >= 1 /\ is_casting) => last_position # None
    /\ GateOnlyWhileCasting

\* a tracker with path_length 0 lost the wand and is still Casting
CastingWithoutLastSeen ==
    /\ Updated
    /\ position = None
    /\ path_length = 0
    /\ is_casting
    /\ last_position = None


\* C28: in every state of a tracker with path_length >= 1 in which it is
\* Casting, the path is non-empty, its last element is the last-seen
\* position and cast_start_time is set; so when the wand is lost the guard
\* `is_casting and len(path) > 0` is the guard `is_casting`
C28_CastingHoldsPath ==
    (path_length >= 1 /\ is_casting) =>
        /\ path # <<>>
        /\ path[Len(path)] = last_position
        /\ cast_start_time # None

\* C28 witness: the wand was lost by a Casting tracker whose full path had
\* evicted a point, and the lost-wand guard ended the cast
C28_Witness_LostWhileCasting ==
    /\ Updated
    /\ position = None
    /\ path_length >= 1
    /\ pre.is_casting
    /\ Len(pre.recorded) > path_length
    /\ pre.path[Len(pre.path)] = pre.last_position
    /\ ~is_casting

\* C29: any two consecutive points of the path are at distance at least
\* min_movement; the position the gate compares with is the last recorded
\* point, and a found position at least min_movement away from it is
\* recorded
C29_ConsecutivePointsApart ==
    /\ \A i \in 1..(Len(path) - 1) :
           SquaredDistance(path[i], path[i + 1]) >= min_movement * min_movement
    /\ last_position # None =>
           recorded # <<>> /\ last_position = recorded[Len(recorded)]
    /\ (Updated /\ position # None /\ pre.last_position # None
          /\ SquaredDistance(position, pre.last_position)
                 >= min_movement * min_movement) =>
           /\ Len(recorded) = Len(pre.recorded) + 1
           /\ recorded[Len(recorded)] = position

\* C29 witness: with min_movement 5, the point (6,0) was recorded right
\* after (0,0): the wand passed (3,0), within 5 of both, unrecorded
C29_Witness_RecordedPastTheGate ==
    /\ Updated
    /\ min_movement = 5
    /\ position = <<6, 0>>
    /\ pre.last_position = <<0, 0>>
    /\ Len(path) >= 2
    /\ path[Len(path) - 1] = <<0, 0>>
    /\ path[Len(path)] = <<6, 0>>

----------------------------------------------------------------------------
\* Properties of recognize and get_spell_stats on one path, checked under
\* SpecRecognizeStats

\* recognize returned a label: Unknown or a direction
Labelled == spell = UNKNOWN \/ spell \in Directions

\* C30: with min_points >= 1, recognize ends without an indexing error and
\* divides only by a positive total distance; when it returns a label the
\* path has at least two points and a positive total distance, and
\* get_spell_stats on the same path returns a record, whose straightness is
\* at least straightness_threshold when the label is a direction
C30_LabelHasStats ==
    (min_points >= 1 /\ Recognized) =>
        /\ spell # IndexError
        /\ (Len(points) >= min_points /\ points[1] # points[Len(points)]) =>
               total_distance(points) > 0
        /\ Labelled => Len(points) >= 2 /\ total_distance(points) > 0
        /\ (Labelled /\ StatsTaken) =>
               /\ stats.status = "stats"
               /\ FLess(FZero, stats.total_distance)
               /\ spell \in Directions =>
                      ~FLess(stats.straightness, threshold_float)

\* C30 witness: a path with a corner got a direction, and its stats hold a
\* straightness below 1
C30_Witness_BentDirection ==
    /\ min_points >= 1
    /\ spell \in Directions
    /\ StatsTaken
    /\ stats.status = "stats"
    /\ Len(points) = 3
    /\ FLess(stats.straightness, FOne)

====
